---- MODULE Spec2Model ----
(***************************************************************************)
(* Model of the varcor Variable combinator core and of the typed variables *)
(* built on it (src/variables), with the DateObject parser they use, the   *)
(* schema resolution (InferValues.ts, InferResults.ts) and                  *)
(* DataObjectBuilder (src/data).                                           *)
(*                                                                         *)
(* Variables are JavaScript objects: the model keeps them in an object     *)
(* heap (vars) and keeps the private arrays they own in an array heap      *)
(* (arrays), so that cloning, in-place writes to a clone and aliasing are  *)
(* what the code makes them.  JavaScript strings are sequences of          *)
(* one-character strings; issue messages are TLA+ strings.                 *)
(***************************************************************************)
EXTENDS Integers, Sequences, FiniteSets, TLC

\* vars: the Variable objects; arrays: the arrays they own; last: the last
\* call and what it returned; limit: the number of objects a run may create
VARIABLES vars, arrays, last, limit

allVars == <<vars, arrays, last, limit>>

(***************************************************************************)
(* Bounds                                                                  *)
(***************************************************************************)
\* largest number of Variable objects on the heap
MaxVars == 3

\* the same, in the runs that only build and parse else-unions
MaxUnionVars == 4

\* the same, in the runs that configure the typed variables
MaxConfigVars == 3

\* the same, in the runs that configure and parse the typed variables
MaxTypedVars == 3

\* largest number of alternatives of a union node of a schema
MaxAlternatives == 2

(***************************************************************************)
(* JavaScript values                                                       *)
(***************************************************************************)
\* a number is n / 10^d, normalised (d = 0 or n not divisible by 10)
Undefined == [tag |-> "undefined", n |-> 0, d |-> 0, s |-> <<>>]
Null == [tag |-> "null", n |-> 0, d |-> 0, s |-> <<>>]
NaN == [tag |-> "NaN", n |-> 0, d |-> 0, s |-> <<>>]
Num(k) == [tag |-> "number", n |-> k, d |-> 0, s |-> <<>>]
Str(cs) == [tag |-> "string", n |-> 0, d |-> 0, s |-> cs]
Bool(b) == [tag |-> "boolean", n |-> IF b THEN 1 ELSE 0, d |-> 0, s |-> <<>>]

RECURSIVE Pow10(_)
Pow10(k) == IF k = 0 THEN 1 ELSE 10 * Pow10(k - 1)

RECURSIVE Normalise(_, _)
Normalise(n, d) ==
    IF d > 0 /\ n % 10 = 0 THEN Normalise(n \div 10, d - 1)
    ELSE [tag |-> "number", n |-> n, d |-> d, s |-> <<>>]

\* a <= b on numbers
NumLE(a, b) == a.n * Pow10(b.d) <= b.n * Pow10(a.d)

\* JavaScript truthiness, as used by || on the values of the model
Truthy(v) ==
    CASE v.tag = "undefined" -> FALSE
      [] v.tag = "null" -> FALSE
      [] v.tag = "NaN" -> FALSE
      [] v.tag = "number" -> v.n # 0
      [] v.tag = "boolean" -> v.n = 1
      [] v.tag = "string" -> Len(v.s) > 0
      [] OTHER -> TRUE

\* a || b
JsOr(a, b) == IF Truthy(a) THEN a ELSE b

(***************************************************************************)
(* Strings                                                                 *)
(***************************************************************************)
Digits == <<"0", "1", "2", "3", "4", "5", "6", "7", "8", "9">>

IsDigit(c) == \E k \in 1..10 : Digits[k] = c

DigitVal(c) == (CHOOSE k \in 1..10 : Digits[k] = c) - 1

RECURSIVE Flat(_)
Flat(cs) == IF cs = <<>> THEN "" ELSE Head(cs) \o Flat(Tail(cs))

\* length of the longest prefix of cs made of digits
RECURSIVE DigitRun(_)
DigitRun(cs) ==
    IF cs # <<>> /\ IsDigit(Head(cs)) THEN 1 + DigitRun(Tail(cs)) ELSE 0

RECURSIVE DigitsValue(_, _)
DigitsValue(cs, acc) ==
    IF cs = <<>> THEN acc ELSE DigitsValue(Tail(cs), acc * 10 + DigitVal(Head(cs)))

RECURSIVE DropWhile(_, _)
DropWhile(cs, c) ==
    IF cs # <<>> /\ Head(cs) = c THEN DropWhile(Tail(cs), c) ELSE cs

Drop(cs, k) == SubSeq(cs, k + 1, Len(cs))

Take(cs, k) == SubSeq(cs, 1, IF k < Len(cs) THEN k ELSE Len(cs))

Upper == <<"A", "B", "C", "D", "E", "F", "G", "H", "I", "J", "K", "L", "M",
           "N", "O", "P", "Q", "R", "S", "T", "U", "V", "W", "X", "Y", "Z">>

Lower == <<"a", "b", "c", "d", "e", "f", "g", "h", "i", "j", "k", "l", "m",
           "n", "o", "p", "q", "r", "s", "t", "u", "v", "w", "x", "y", "z">>

\* toLocaleLowerCase and toUpperCase, character by character
ToLower(cs) ==
    [k \in 1..Len(cs) |->
        IF \E j \in 1..26 : Upper[j] = cs[k] THEN Lower[CHOOSE j \in 1..26 : Upper[j] = cs[k]] ELSE cs[k]]

ToUpper(cs) ==
    [k \in 1..Len(cs) |->
        IF \E j \in 1..26 : Lower[j] = cs[k] THEN Upper[CHOOSE j \in 1..26 : Lower[j] = cs[k]] ELSE cs[k]]

\* indexOf: the zero-based index of the first element equal to x, or -1
IndexOf(seq, x) ==
    IF \E k \in 1..Len(seq) : seq[k] = x
    THEN (CHOOSE k \in 1..Len(seq) : seq[k] = x /\ \A j \in 1..(k - 1) : seq[j] # x) - 1
    ELSE 0 - 1

\* Number.parseFloat: leading blanks are skipped, then the longest prefix of
\* the form [+-] digits [. digits] is read; NaN when that prefix has no digit.
\* (Exponents and the literal Infinity are not read: no input of the model
\* has one.)
ParseFloat(value) ==
    LET t == DropWhile(value, " ")
        neg == t # <<>> /\ Head(t) = "-"
        u == IF t # <<>> /\ Head(t) \in {"-", "+"} THEN Tail(t) ELSE t
        ni == DigitRun(u)
        r == Drop(u, ni)
        nf == IF r # <<>> /\ Head(r) = "." THEN DigitRun(Tail(r)) ELSE 0
        mag == DigitsValue(Take(u, ni) \o Take(Drop(r, 1), nf), 0)
    IN  IF ni + nf = 0 THEN NaN
        ELSE Normalise(IF neg THEN 0 - mag ELSE mag, nf)

(***************************************************************************)
(* Result                                                                  *)
(***************************************************************************)
\* Result.failure stores the error it is given: an array of issues (bare is
\* FALSE and error holds the issues) or a string (bare is TRUE and error holds
\* the one string)
Success(value) == [success |-> TRUE, value |-> value, error |-> <<>>, bare |-> FALSE]

Failure(error) == [success |-> FALSE, value |-> Undefined, error |-> error, bare |-> FALSE]

FailureString(message) ==
    [success |-> FALSE, value |-> Undefined, error |-> <<message>>, bare |-> TRUE]

\* the characters of an issue message
Chars(message) == [k \in 1..Len(message) |-> SubSeq(message, k, k)]

\* ...result.error: the elements of an array, the characters of a string
Spread(result) == IF result.bare THEN Chars(result.error[1]) ELSE result.error

(***************************************************************************)
(* The object heap                                                         *)
(***************************************************************************)
\* H is a heap: [vars |-> the Variable objects, arrays |-> the arrays they own].
\* An operation returns the heap it leaves and the reference it returns (ret).
NoData == [from |-> 0, transform |-> "", type |-> ""]

\* the argument of a constructor called without one
NoFrom == [optional |-> FALSE, default |-> Undefined]

AllocVar(H, obj) ==
    [vars |-> Append(H.vars, obj), arrays |-> H.arrays, ret |-> Len(H.vars) + 1]

AllocArray(H, elems) ==
    [vars |-> H.vars, arrays |-> Append(H.arrays, elems), ret |-> Len(H.arrays) + 1]

HeapOf(r) == [vars |-> r.vars, arrays |-> r.arrays]

\* Variable.constructor: #optional and #default are taken from the Variable
\* or the options object it is given; the subclass fields start unset.
Variable_constructor(class, from) ==
    [class |-> class,
     optional |-> from.optional,
     default |-> from.default,
     variables |-> 0,
     data |-> NoData,
     validator |-> "",
     min |-> Undefined,
     max |-> Undefined,
     items |-> 0,
     insensitive |-> FALSE,
     validators |-> 0,
     formats |-> 0]

\* AggregateVariable.constructor(from?, variable?); 0 stands for an omitted
\* argument.  #variables is a fresh array; the members of from are copied
\* only when from is itself an AggregateVariable.
AggregateVariable_constructor(H, from, variable) ==
    LET f == IF from = 0 THEN NoFrom ELSE H.vars[from]
        v == IF variable = 0 THEN NoFrom ELSE H.vars[variable]
        base == Variable_constructor("AggregateVariable",
                    [optional |-> f.optional \/ v.optional,
                     default |-> JsOr(f.default, v.default)])
        fromPart == IF from # 0 /\ f.class = "AggregateVariable"
                    THEN H.arrays[f.variables] ELSE <<>>
        varPart == IF variable = 0 THEN <<>>
                   ELSE IF v.class = "AggregateVariable"
                        THEN H.arrays[v.variables] ELSE <<variable>>
        a == AllocArray(H, fromPart \o varPart)
    IN  AllocVar(HeapOf(a), [base EXCEPT !.variables = a.ret])

\* TransformedVariable.constructor(from?, data?)
TransformedVariable_constructor(H, from, data) ==
    LET base == Variable_constructor("TransformedVariable",
                    IF from = 0 THEN NoFrom ELSE H.vars[from])
        d == IF data # NoData THEN data
             ELSE IF from # 0 THEN H.vars[from].data
             ELSE [from |-> 0, transform |-> "invalid", type |-> ""]
    IN  AllocVar(H, [base EXCEPT !.data = d])

\* JsonVariable.constructor(from?): #validator is not taken from from
JsonVariable_constructor(H, from) ==
    AllocVar(H, Variable_constructor("JsonVariable",
                    IF from = 0 THEN NoFrom ELSE H.vars[from]))

\* NumberVariable.constructor(from?)
NumberVariable_constructor(H, from) ==
    LET f == IF from = 0 THEN NoFrom ELSE H.vars[from]
        base == Variable_constructor("NumberVariable", f)
    IN  AllocVar(H, [base EXCEPT !.min = IF from = 0 THEN Undefined ELSE f.min,
                                 !.max = IF from = 0 THEN Undefined ELSE f.max])

\* IntegerVariable.constructor(from?)
IntegerVariable_constructor(H, from) ==
    LET f == IF from = 0 THEN NoFrom ELSE H.vars[from]
        base == Variable_constructor("IntegerVariable", f)
    IN  AllocVar(H, [base EXCEPT !.min = IF from = 0 THEN Undefined ELSE f.min,
                                 !.max = IF from = 0 THEN Undefined ELSE f.max])

\* a constructor that keeps the #items array of from instead of copying it
EnumVariable_constructor_Shared(H, from) ==
    LET f == IF from = 0 THEN NoFrom ELSE H.vars[from]
        base == Variable_constructor("EnumVariable", f)
        a == IF from = 0 THEN AllocArray(H, <<>>)
             ELSE [vars |-> H.vars, arrays |-> H.arrays, ret |-> f.items]
    IN  AllocVar(HeapOf(a),
                 [base EXCEPT !.items = a.ret,
                              !.insensitive = IF from = 0 THEN FALSE ELSE f.insensitive])

\* EnumVariable.constructor(from?): #items is a copy, [...from.#items]
EnumVariable_constructor(H, from) ==
    LET f == IF from = 0 THEN NoFrom ELSE H.vars[from]
        base == Variable_constructor("EnumVariable", f)
        a == AllocArray(H, IF from = 0 THEN <<>> ELSE H.arrays[f.items])
    IN  AllocVar(HeapOf(a),
                 [base EXCEPT !.items = a.ret,
                              !.insensitive = IF from = 0 THEN FALSE ELSE f.insensitive])

\* StringVariable.constructor(from?): #validators is a copy
StringVariable_constructor(H, from) ==
    LET f == IF from = 0 THEN NoFrom ELSE H.vars[from]
        base == Variable_constructor("StringVariable", f)
        a == AllocArray(H, IF from = 0 THEN <<>> ELSE H.arrays[f.validators])
    IN  AllocVar(HeapOf(a), [base EXCEPT !.validators = a.ret])

\* DateObjectVariable.constructor(from?, ...formats): the formats given, or
\* a copy of those of from, or the one default format
DateObjectVariable_constructor(H, from, formats) ==
    LET f == IF from = 0 THEN NoFrom ELSE H.vars[from]
        base == Variable_constructor("DateObjectVariable", f)
        a == AllocArray(H, IF Len(formats) > 0 THEN formats
                           ELSE IF from # 0 THEN H.arrays[f.formats]
                           ELSE <<"datetimeTz">>)
    IN  AllocVar(HeapOf(a), [base EXCEPT !.formats = a.ret])

\* the __clone of each class; TransformedVariable does not override it and
\* so inherits Variable.__clone, which makes a plain Variable
Clone(H, self) ==
    LET class == H.vars[self].class IN
    CASE class = "AggregateVariable" -> AggregateVariable_constructor(H, self, 0)
      [] class = "JsonVariable" -> JsonVariable_constructor(H, self)
      [] class = "NumberVariable" -> NumberVariable_constructor(H, self)
      [] class = "IntegerVariable" -> IntegerVariable_constructor(H, self)
      [] class = "EnumVariable" -> EnumVariable_constructor(H, self)
      [] class = "StringVariable" -> StringVariable_constructor(H, self)
      [] class = "DateObjectVariable" -> DateObjectVariable_constructor(H, self, <<>>)
      [] OTHER -> AllocVar(H, Variable_constructor("Variable", H.vars[self]))

\* optional() that sets the fields of the receiver and returns it
Variable_optional_InPlace(H, self) ==
    [vars |-> [H.vars EXCEPT ![self].optional = TRUE, ![self].default = Undefined],
     arrays |-> H.arrays,
     ret |-> self]

\* Variable.optional
Variable_optional(H, self) ==
    LET r == Clone(H, self) IN
    [r EXCEPT !.vars[r.ret].optional = TRUE, !.vars[r.ret].default = Undefined]

\* Variable.defaultTo
Variable_defaultTo(H, self, value) ==
    LET r == Clone(H, self) IN
    [r EXCEPT !.vars[r.ret].optional = FALSE, !.vars[r.ret].default = value]

\* Variable.else
Variable_else(H, self, variable) == AggregateVariable_constructor(H, self, variable)

\* Variable.transform
Variable_transform(H, self, transform, type) ==
    TransformedVariable_constructor(H, 0,
        [from |-> self, transform |-> transform, type |-> type])

\* JsonVariable.validate
JsonVariable_validate(H, self, validator) ==
    LET r == Clone(H, self) IN
    [r EXCEPT !.vars[r.ret].validator = validator]

\* NumberVariable.min, NumberVariable.max
NumberVariable_min(H, self, value) ==
    LET r == Clone(H, self) IN [r EXCEPT !.vars[r.ret].min = value]

NumberVariable_max(H, self, value) ==
    LET r == Clone(H, self) IN [r EXCEPT !.vars[r.ret].max = value]

\* IntegerVariable.min and IntegerVariable.max: Math.ceil(value), Math.floor(value)
\* min that keeps the bound as given, without Math.ceil
IntegerVariable_min_NoRound(H, self, value) ==
    LET r == Clone(H, self) IN [r EXCEPT !.vars[r.ret].min = value]

IntegerVariable_min(H, self, value) ==
    LET r == Clone(H, self) IN [r EXCEPT !.vars[r.ret].min = Num(0 - ((0 - value.n) \div Pow10(value.d)))]

IntegerVariable_max(H, self, value) ==
    LET r == Clone(H, self) IN [r EXCEPT !.vars[r.ret].max = Num(value.n \div Pow10(value.d))]

\* EnumVariable.insensitive, EnumVariable.sensitive
EnumVariable_insensitive(H, self) ==
    LET r == Clone(H, self) IN [r EXCEPT !.vars[r.ret].insensitive = TRUE]

EnumVariable_sensitive(H, self) ==
    LET r == Clone(H, self) IN [r EXCEPT !.vars[r.ret].insensitive = FALSE]

\* EnumVariable.value: newVar.#items.push(value)
EnumVariable_value(H, self, value) ==
    LET r == Clone(H, self) IN
    [r EXCEPT !.arrays[r.vars[r.ret].items] = Append(@, value)]

\* StringVariable.#validate: newVar.#validators.push(validator)
StringVariable_validate(H, self, validator) ==
    LET r == Clone(H, self) IN
    [r EXCEPT !.arrays[r.vars[r.ret].validators] = Append(@, validator)]

\* StringVariable.regex: the validator made of the regex by regexValidator
StringVariable_regex(H, self, regex) ==
    StringVariable_validate(H, self, "regex:" \o regex)

\* DateObjectVariable.format: newVar.#formats is a new array, of the formats
\* given when clear is set and of those of this followed by them otherwise
DateObjectVariable_format(H, self, regex, clear) ==
    LET r == Clone(H, self)
        a == AllocArray(HeapOf(r), IF clear THEN regex
                                   ELSE H.arrays[H.vars[self].formats] \o regex)
    IN  [vars |-> [a.vars EXCEPT ![r.ret].formats = a.ret],
         arrays |-> a.arrays, ret |-> r.ret]

(***************************************************************************)
(* Functions supplied by the caller                                        *)
(***************************************************************************)
\* Math.round of a number: the nearest integer, halves towards +Infinity
MathRound(x) == (2 * x.n + Pow10(x.d)) \div (2 * Pow10(x.d))

\* a % b of JavaScript: the sign of the dividend
JsRem(a, b) == IF a >= 0 THEN a % b ELSE 0 - ((0 - a) % b)

\* the values a transformer or validator of the model can be given are
\* numbers, booleans, null and undefined
ToInteger(v) ==
    CASE v.tag = "number" -> MathRound(v)
      [] v.tag = "boolean" -> v.n
      [] OTHER -> 0

\* isOdd: value => Result.success((Math.round(value || 0) % 2) === 1)
isOdd(value) == Success(Bool(JsRem(ToInteger(JsOr(value, Num(0))), 2) = 1))

\* positive: value => value > 0 ? Result.success(value)
\*                              : Result.failure(['must be positive'])
positive(value) ==
    IF value.tag = "number" /\ value.n > 0 THEN Success(value)
    ELSE IF value.tag = "boolean" /\ value.n = 1 THEN Success(value)
    ELSE Failure(<<"must be positive">>)

Transformers == {"isOdd", "positive"}

ApplyTransform(transform, value) ==
    IF transform = "isOdd" THEN isOdd(value) ELSE positive(value)

\* isNumber: data => typeof data === 'number' ? Result.success(data)
\*                                            : Result.failure(['must be a number value'])
isNumber(data) ==
    IF data.tag = "number" THEN Success(data)
    ELSE Failure(<<"must be a number value">>)

JsonValidators == {"isNumber"}

ApplyValidator(validator, data) == isNumber(data)

\* isUppercase: value === value.toUpperCase() ? Result.success(value)
\*                                             : Result.failure(['must be uppercase'])
isUppercase(value) ==
    IF value.s = ToUpper(value.s) THEN Success(value)
    ELSE Failure(<<"must be uppercase">>)

\* hasDigits: /\d/.test(value) ? Result.success(value)
\*                             : Result.failure(['must contain digits'])
hasDigits(value) ==
    IF \E k \in 1..Len(value.s) : IsDigit(value.s[k]) THEN Success(value)
    ELSE Failure(<<"must contain digits">>)

StringValidators == {"isUppercase", "hasDigits"}

\* the regular expressions given to regex, by their source text
Regexes == {"/^[a-zA-Z0-9]+$/"}

\* regexValidator(regex): value.match(regex) with /^[a-zA-Z0-9]+$/, and the
\* whole match on success
regexValidator(regex, value) ==
    IF /\ value.s # <<>>
       /\ \A k \in 1..Len(value.s) :
             IsDigit(value.s[k]) \/ \E j \in 1..26 : value.s[k] \in {Upper[j], Lower[j]}
    THEN Success(value)
    ELSE Failure(<<"must match " \o regex>>)

\* the call validator(value) of an entry of #validators
ApplyStringValidator(validator, value) ==
    CASE validator = "isUppercase" -> isUppercase(value)
      [] validator = "hasDigits" -> hasDigits(value)
      [] OTHER -> regexValidator(SubSeq(validator, 7, Len(validator)), value)

(***************************************************************************)
(* JSON.parse                                                              *)
(***************************************************************************)
RECURSIVE TrimRight(_)
TrimRight(cs) ==
    IF cs # <<>> /\ cs[Len(cs)] = " " THEN TrimRight(Take(cs, Len(cs) - 1)) ELSE cs

\* a JSON number: -? (0 | [1-9] digits) (. digits+)?
IsJsonNumber(t) ==
    LET u == IF t # <<>> /\ Head(t) = "-" THEN Tail(t) ELSE t
        ni == DigitRun(u)
        r == Drop(u, ni)
        nf == IF r # <<>> /\ Head(r) = "." THEN DigitRun(Tail(r)) ELSE 0
    IN  /\ ni >= 1
        /\ (ni > 1 => Head(u) # "0")
        /\ \/ r = <<>>
           \/ Head(r) = "." /\ nf >= 1 /\ Len(r) = nf + 1

\* JSON.parse on the texts of the model: the literals and numbers are read,
\* every other text (none holds a quote, bracket or brace) is a SyntaxError,
\* returned here as [threw |-> TRUE, message |-> the error's message].
JSONParse(value) ==
    LET t == TrimRight(DropWhile(value, " ")) IN
    CASE t = <<"t", "r", "u", "e">> -> [threw |-> FALSE, data |-> Bool(TRUE), message |-> ""]
      [] t = <<"f", "a", "l", "s", "e">> -> [threw |-> FALSE, data |-> Bool(FALSE), message |-> ""]
      [] t = <<"n", "u", "l", "l">> -> [threw |-> FALSE, data |-> Null, message |-> ""]
      [] IsJsonNumber(t) -> [threw |-> FALSE, data |-> ParseFloat(t), message |-> ""]
      [] t = <<>> -> [threw |-> TRUE, data |-> Undefined,
                      message |-> "Unexpected end of JSON input"]
      [] OTHER -> [threw |-> TRUE, data |-> Undefined,
                   message |-> "Unexpected token in JSON"]

(***************************************************************************)
(* parse                                                                   *)
(***************************************************************************)
\* A parse returns [result |-> the Result, calls |-> the calls it made to
\* type-specific parse routines (__parse), transformers and validators].
Call(fn, self, arg) == [fn |-> fn, self |-> self, arg |-> arg]

Ret(result) == [result |-> result, calls |-> <<>>]

\* `${n}` of a number
RECURSIVE NatToString(_)
NatToString(k) == IF k < 10 THEN Digits[k + 1] ELSE NatToString(k \div 10) \o Digits[(k % 10) + 1]

\* k written with exactly width digits
RECURSIVE PadDigits(_, _)
PadDigits(k, width) ==
    IF width = 0 THEN "" ELSE PadDigits(k \div 10, width - 1) \o Digits[(k % 10) + 1]

NumToString(x) ==
    LET mag == IF x.n < 0 THEN 0 - x.n ELSE x.n
        p == Pow10(x.d)
        sign == IF x.n < 0 THEN "-" ELSE ""
    IN  IF x.d = 0 THEN sign \o NatToString(mag)
        ELSE sign \o NatToString(mag \div p) \o "." \o PadDigits(mag % p, x.d)

\* __parse that takes the bounds as exclusive
NumberVariable_uparse_Exclusive(H, self, value) ==
    LET o == H.vars[self]
        result == ParseFloat(value.s)
    IN  IF result = NaN THEN Failure(<<"must be a number">>)
        ELSE IF /\ o.min # Undefined => ~NumLE(result, o.min)
                /\ o.max # Undefined => ~NumLE(o.max, result)
             THEN Success(result)
             ELSE Failure(<<"must be between the bounds">>)

\* NumberVariable.__parse
NumberVariable_uparse(H, self, value) ==
    LET o == H.vars[self]
        hasMin == o.min # Undefined
        hasMax == o.max # Undefined
        minText == IF hasMin THEN NumToString(o.min) ELSE "-Infinity"
        maxText == IF hasMax THEN NumToString(o.max) ELSE "Infinity"
        error == IF hasMin
                 THEN IF hasMax
                      THEN "must be between " \o minText \o " and " \o maxText
                      ELSE "must be greater than " \o minText
                 ELSE "must be less than " \o maxText
        result == ParseFloat(value.s)
    IN  IF result = NaN THEN Failure(<<"must be a number">>)
        ELSE IF (hasMin => NumLE(o.min, result)) /\ (hasMax => NumLE(result, o.max))
             THEN Success(result)
             ELSE Failure(<<error>>)

\* JsonVariable.__parse: this.#validator?.(data) ?? Result.success(data)
JsonVariable_uparse(H, self, value) ==
    LET o == H.vars[self]
        j == JSONParse(value.s)
    IN  IF j.threw THEN [result |-> FailureString(j.message), calls |-> <<>>]
        ELSE IF o.validator # ""
             THEN [result |-> ApplyValidator(o.validator, j.data),
                   calls |-> <<Call("validator", self, j.data)>>]
             ELSE [result |-> Success(j.data), calls |-> <<>>]

HexDigits == <<"0", "1", "2", "3", "4", "5", "6", "7", "8", "9",
               "A", "B", "C", "D", "E", "F">>

\* is every character a digit of the base, letters in either case
IsDigitsOf(cs, base) ==
    /\ cs # <<>>
    /\ \A k \in 1..Len(cs) : \E j \in 1..base : HexDigits[j] = ToUpper(<<cs[k]>>)[1]

\* parseInt that reads the digits in base 10 whatever the base given
RECURSIVE ParseInt_Base10(_, _, _)
ParseInt_Base10(cs, base, acc) ==
    IF cs = <<>> THEN acc
    ELSE ParseInt_Base10(Tail(cs), base,
             acc * 10 + (CHOOSE j \in 1..16 : HexDigits[j] = ToUpper(<<Head(cs)>>)[1]) - 1)

\* Number.parseInt(digits, base) of digits of the base
RECURSIVE ParseInt(_, _, _)
ParseInt(cs, base, acc) ==
    IF cs = <<>> THEN acc
    ELSE ParseInt(Tail(cs), base,
                  acc * base + (CHOOSE j \in 1..16 : HexDigits[j] = ToUpper(<<Head(cs)>>)[1]) - 1)

\* IntegerVariable.__parse
IntegerVariable_uparse(H, self, value) ==
    LET o == H.vars[self]
        hasMin == o.min # Undefined
        hasMax == o.max # Undefined
        error == IF hasMin /\ hasMax
                 THEN "must be between " \o NumToString(o.min) \o " and " \o NumToString(o.max)
                 ELSE IF hasMin THEN "must be greater than or equal to " \o NumToString(o.min)
                 ELSE IF hasMax THEN "must be less than or equal to " \o NumToString(o.max)
                 ELSE ""
        cs == value.s
        prefix == ToLower(Take(cs, 2))
        decimal == IsDigitsOf(cs, 10)
        binary == prefix = <<"0", "b">> /\ IsDigitsOf(Drop(cs, 2), 2)
        hex == prefix = <<"0", "x">> /\ IsDigitsOf(Drop(cs, 2), 16)
        integer == IF decimal THEN Num(ParseInt(cs, 10, 0))
                   ELSE IF binary THEN Num(ParseInt(Drop(cs, 2), 2, 0))
                   ELSE Num(ParseInt(Drop(cs, 2), 16, 0))
    IN  IF ~(decimal \/ binary \/ hex) THEN Failure(<<"must be an integer">>)
        ELSE IF (hasMin => NumLE(o.min, integer)) /\ (hasMax => NumLE(integer, o.max))
             THEN Success(integer)
             ELSE Failure(<<error>>)

\* EnumVariable.type: the items, quoted, joined by '/'
RECURSIVE EnumType(_)
EnumType(items) ==
    IF items = <<>> THEN ""
    ELSE "'" \o Flat(Head(items)) \o "'"
         \o (IF Len(items) > 1 THEN "/" ELSE "") \o EnumType(Tail(items))

\* __parse that returns the input as given instead of the registered literal
EnumVariable_uparse_InputCasing(H, self, value) ==
    LET o == H.vars[self]
        items == H.arrays[o.items]
        index == IF o.insensitive
                 THEN IndexOf([k \in 1..Len(items) |-> ToLower(items[k])], ToLower(value.s))
                 ELSE IndexOf(items, value.s)
    IN  IF index # 0 - 1 THEN Success(value)
        ELSE FailureString("must be of " \o EnumType(items))

\* EnumVariable.__parse
EnumVariable_uparse(H, self, value) ==
    LET o == H.vars[self]
        items == H.arrays[o.items]
        index == IF o.insensitive
                 THEN IndexOf([k \in 1..Len(items) |-> ToLower(items[k])], ToLower(value.s))
                 ELSE IndexOf(items, value.s)
    IN  IF index # 0 - 1 THEN Success(Str(items[index + 1]))
        ELSE FailureString(IF Len(items) = 0 THEN "must never exist"
                           ELSE "must be of " \o EnumType(items))

\* the loop of StringVariable.__parse: every validator runs, the issues of
\* those that fail are collected
RECURSIVE StringVariable_loop(_, _, _, _, _)
StringVariable_loop(validators, k, self, value, acc) ==
    IF k > Len(validators) THEN acc
    ELSE LET result == ApplyStringValidator(validators[k], value) IN
         StringVariable_loop(validators, k + 1, self, value,
             [issues |-> IF result.success THEN acc.issues
                         ELSE acc.issues \o Spread(result),
              calls |-> Append(acc.calls, Call("validator", self, value))])

\* __parse that returns the result of the first validator that succeeds and
\* fails only when every validator fails
StringVariable_uparse_FirstSuccess(H, self, value) ==
    LET validators == H.arrays[H.vars[self].validators]
        passing == {k \in 1..Len(validators) : ApplyStringValidator(validators[k], value).success}
        n == IF passing = {} THEN Len(validators)
             ELSE CHOOSE k \in passing : \A j \in passing : k <= j
        r == StringVariable_loop(SubSeq(validators, 1, n), 1, self, value,
                                 [issues |-> <<>>, calls |-> <<>>])
    IN  [result |-> IF validators = <<>> THEN Success(value)
                    ELSE IF passing # {} THEN ApplyStringValidator(validators[n], value)
                    ELSE Failure(r.issues),
         calls |-> r.calls]

\* StringVariable.__parse
StringVariable_uparse(H, self, value) ==
    LET validators == H.arrays[H.vars[self].validators]
        r == StringVariable_loop(validators, 1, self, value,
                                 [issues |-> <<>>, calls |-> <<>>])
    IN  [result |-> IF Len(r.issues) > 0 THEN Failure(r.issues) ELSE Success(value),
         calls |-> r.calls]

(***************************************************************************)
(* DateObject                                                              *)
(***************************************************************************)
\* the formats of the model, by name: DateObject.regex.date, .time, .timeTz,
\* .datetime and .datetimeTz, and customFormat.  FormatRegex is the RegExp of
\* a format as it prints.
FormatRegex(format) ==
    LET timezone == "(?:(?<tzutc>Z)|(?:(?<tzhour>[+-]\\d{2}):(?<tzminute>\\d{2})))"
        time == "(?:(?<hour>\\d{2}):(?<minute>\\d{2})(?::(?<second>\\d{2})(?:.(?<ms>\\d{3}))?)?)"
        date == "(?:(?<year>\\d{4})(?:-(?<month>\\d{2})(?:-(?<day>\\d{2}))?)?)"
        datetime == "^" \o date \o "(?:[T ]" \o time \o ")?$"
        timeTz == time \o timezone
        datetimeTz == date \o "(?:[T ]" \o timeTz \o "?)?"
        customFormat == "/^(?<year>\\d{4})\\-(?<month>\\d{2})\\-(?<day>\\d{2}) "
                        \o "(?<hour>\\d{2}):(?<minute>\\d{2})$/"
    IN  CASE format = "date" -> "/^" \o date \o "$/i"
          [] format = "time" -> "/^" \o time \o "$/i"
          [] format = "timeTz" -> "/^" \o timeTz \o "$/i"
          [] format = "datetime" -> "/^" \o datetime \o "$/i"
          [] format = "datetimeTz" -> "/^" \o datetimeTz \o "$/i"
          [] OTHER -> customFormat

\* the same regular expressions as the matcher reads them: a sequence of
\* captured digits (?<name>\d{k}), single characters of a set (captured when
\* named), the unescaped dot written before ms (any character but a line
\* end), optional groups and alternatives.  The i flag is in the sets.
FormatPattern(format) ==
    LET digits(k, name) == [op |-> "digits", k |-> k, name |-> name]
        char(chars, name) == [op |-> "char", chars |-> chars, name |-> name]
        seq(items) == [op |-> "seq", items |-> items]
        opt(items) == [op |-> "opt", items |-> items]
        timezone == [op |-> "alt",
                     left |-> char({"Z", "z"}, "tzutc"),
                     right |-> seq(<<[op |-> "signed", name |-> "tzhour"],
                                      char({":"}, ""), digits(2, "tzminute")>>)]
        time == seq(<<digits(2, "hour"), char({":"}, ""), digits(2, "minute"),
                       opt(<<char({":"}, ""), digits(2, "second"),
                             opt(<<[op |-> "any"], digits(3, "ms")>>)>>)>>)
        date == seq(<<digits(4, "year"),
                       opt(<<char({"-"}, ""), digits(2, "month"),
                             opt(<<char({"-"}, ""), digits(2, "day")>>)>>)>>)
    IN  CASE format = "date" -> date
          [] format = "time" -> time
          [] format = "timeTz" -> seq(<<time, timezone>>)
          [] format = "datetime" -> seq(<<date, opt(<<char({"T", "t", " "}, ""), time>>)>>)
          [] format = "datetimeTz" ->
                seq(<<date, opt(<<char({"T", "t", " "}, ""), time, opt(<<timezone>>)>>)>>)
          [] OTHER ->
                seq(<<digits(4, "year"), char({"-"}, ""), digits(2, "month"),
                       char({"-"}, ""), digits(2, "day"), char({" "}, ""),
                       digits(2, "hour"), char({":"}, ""), digits(2, "minute")>>)

\* the named groups of a match; <<>> is a group that did not take part
NoGroups ==
    [year |-> <<>>, month |-> <<>>, day |-> <<>>, hour |-> <<>>, minute |-> <<>>,
     second |-> <<>>, ms |-> <<>>, tzutc |-> <<>>, tzhour |-> <<>>, tzminute |-> <<>>]

\* a match in progress, m: whether it still holds, the groups captured and
\* the text still to match.  An optional group is taken when it matches: in
\* these expressions what follows an optional group cannot start as the group
\* does, so the greedy choice is the only one that can match.
RECURSIVE MatchPattern(_, _)
RECURSIVE MatchItems(_, _)

MatchItems(items, m) ==
    IF items = <<>> \/ ~m.ok THEN m
    ELSE MatchItems(Tail(items), MatchPattern(Head(items), m))

MatchPattern(p, m) ==
    LET fail == [m EXCEPT !.ok = FALSE]
        take(k, name) ==
            [m EXCEPT !.rest = Drop(@, k),
                      !.groups = IF name = "" THEN @ ELSE [@ EXCEPT ![name] = Take(m.rest, k)]]
        digitsAt(from, k) ==
            Len(m.rest) >= from + k - 1 /\ \A j \in from..(from + k - 1) : IsDigit(m.rest[j])
    IN  CASE p.op = "seq" -> MatchItems(p.items, m)
          [] p.op = "opt" ->
                LET group == MatchItems(p.items, m) IN IF group.ok THEN group ELSE m
          [] p.op = "alt" ->
                LET left == MatchPattern(p.left, m) IN
                IF left.ok THEN left ELSE MatchPattern(p.right, m)
          [] p.op = "digits" -> IF digitsAt(1, p.k) THEN take(p.k, p.name) ELSE fail
          [] p.op = "signed" ->
                IF m.rest # <<>> /\ Head(m.rest) \in {"+", "-"} /\ digitsAt(2, 2)
                THEN take(3, p.name) ELSE fail
          [] p.op = "char" ->
                IF m.rest # <<>> /\ Head(m.rest) \in p.chars THEN take(1, p.name) ELSE fail
          [] OTHER ->
                IF m.rest # <<>> /\ Head(m.rest) \notin {"\n", "\r"} THEN take(1, "") ELSE fail

\* value.match(format), the expression anchored by ^ and $
Match(format, cs) ==
    LET m == MatchPattern(FormatPattern(format), [ok |-> TRUE, groups |-> NoGroups, rest |-> cs])
    IN  [ok |-> m.ok /\ m.rest = <<>>, groups |-> m.groups]

leapYear(year) ==
    IF (year % 4 = 0 /\ year % 100 # 0) \/ year % 400 = 0 THEN 1 ELSE 0

regularDays == <<31, 28, 31, 30, 31, 30, 31, 31, 30, 31, 30, 31>>

monthNames == <<"JANUARY", "FEBRUARY", "MARCH", "APRIL", "MAY", "JUNE", "JULY",
                "AUGUST", "SEPTEMBER", "OCTOBER", "NOVEMBER", "DECEMBER">>

\* monthMap[name]: the month of a full name or of its first three letters
monthMap(name) ==
    IF \E k \in 1..12 : name \in {monthNames[k], SubSeq(monthNames[k], 1, 3)}
    THEN Num(CHOOSE k \in 1..12 : name \in {monthNames[k], SubSeq(monthNames[k], 1, 3)})
    ELSE Undefined

\* (regularDays[month - 1] ?? 30) + leapYear(year)
monthDays(year, month) ==
    (IF month \in 1..12 THEN regularDays[month] ELSE 30) + leapYear(year)

defaults ==
    [year |-> 2000, month |-> 1, day |-> 1, hour |-> 0, minute |-> 0, second |-> 0,
     ms |-> 0, tz |-> [type |-> "local", hour |-> 0, minute |-> 0]]

\* a captured group as the value handed on: undefined when it did not take part
Group(cs) == IF cs = <<>> THEN Undefined ELSE Str(cs)

\* Number.parseInt(value): an optional sign and the digits that follow it
ParseIntOf(cs) ==
    LET signed == cs # <<>> /\ Head(cs) \in {"-", "+"}
        u == IF signed THEN Tail(cs) ELSE cs
        k == DigitRun(u)
    IN  IF k = 0 THEN NaN
        ELSE IF signed /\ Head(cs) = "-" THEN Num(0 - DigitsValue(Take(u, k), 0))
        ELSE Num(DigitsValue(Take(u, k), 0))

\* the first lines of validateItem: the number that is validated
ItemNumber(value, defaultTo) ==
    IF value.tag = "string" THEN ParseIntOf(value.s)
    ELSE IF value = Undefined THEN Num(defaultTo)
    ELSE value

\* the rest of validateItem on that number v; acc holds the issues and the
\* locals of validateRawObject, and the number returned becomes the local name
ItemCheck(acc, name, v, defaultTo, min, max) ==
    [acc EXCEPT
        !.issues =
            IF v = NaN \/ v.n < min \/ (max # Undefined /\ v.n > max.n)
            THEN Append(@, "." \o name \o " must be "
                           \o (IF max # Undefined THEN "greater than " \o NumToString(Num(min))
                               ELSE "a number " \o NumToString(Num(min)) \o "-undefined"))
            ELSE @,
        ![name] = IF Truthy(v) THEN v.n ELSE defaultTo]

\* const name = validateItem(issues, name, value, defaultTo, min, max); max
\* is Undefined when the argument is left out
validateItem(acc, name, value, defaultTo, min, max) ==
    ItemCheck(acc, name, ItemNumber(value, defaultTo), defaultTo, min, max)

\* const day = validateItem(issues, 'day', ..., monthDays(year, month))
DayStep(acc, value) ==
    validateItem(acc, "day", Group(value.day), defaults.day, 1,
                 Num(monthDays(acc.year, acc.month)))

\* tzoffset and its check
OffsetOf(acc) ==
    LET tzoffset == acc.tzhour * 100
                    + (IF acc.tzhour < 0 THEN 0 - acc.tzminute ELSE acc.tzminute)
    IN  IF tzoffset < 0 - 1400 \/ tzoffset > 1400
        THEN [acc EXCEPT !.issues = Append(@, ".tz must be an offset between -14:00 and +14:00")]
        ELSE [acc EXCEPT !.tz = [type |-> "offset", hour |-> acc.tzhour,
                                 minute |-> acc.tzminute]]

\* the timezone statements of validateRawObject: tz is an object, so if (tz)
\* always holds
validateTimezone(acc, value) ==
    LET utc == IF value.tzutc # <<>> /\ ToUpper(value.tzutc) = <<"Z">>
               THEN [acc EXCEPT !.tz = [type |-> "utc", hour |-> 0, minute |-> 0]]
               ELSE acc
    IN  IF value.tzhour = <<>> THEN utc
        ELSE OffsetOf(
                validateItem(
                    validateItem(
                        [utc EXCEPT !.issues = Append(@, ".tz can only be Z (UTC) or an offset")],
                        "tzhour", Group(value.tzhour), 0, 0 - 14, Num(14)),
                    "tzminute", Group(value.tzminute), 0, 0, Num(59)))

\* the return statement of validateRawObject; a DateObject is a value with
\* the tag DateObject and its fields in date
DateResult(acc) ==
    IF Len(acc.issues) > 0 THEN Failure(acc.issues)
    ELSE Success([tag |-> "DateObject", n |-> 0, d |-> 0, s |-> <<>>,
                  date |-> [year |-> acc.year, month |-> acc.month, day |-> acc.day,
                            hour |-> acc.hour, minute |-> acc.minute,
                            second |-> acc.second, ms |-> acc.ms, tz |-> acc.tz]])

\* validateRawObject (DateObject.from): its statements in order, from the
\* empty issues and the locals not yet set; the month is monthString ??
\* value.month
validateRawObject(value) ==
    LET none == [issues |-> <<>>, year |-> 0, month |-> 0, day |-> 0, hour |-> 0,
                 minute |-> 0, second |-> 0, ms |-> 0, tzhour |-> 0, tzminute |-> 0,
                 tz |-> defaults.tz]
        month == IF value.month # <<>> /\ monthMap(Flat(ToUpper(value.month))) # Undefined
                 THEN monthMap(Flat(ToUpper(value.month)))
                 ELSE Group(value.month)
    IN
    DateResult(validateTimezone(
        validateItem(validateItem(validateItem(validateItem(
            DayStep(
                validateItem(
                    validateItem(none, "year", Group(value.year), defaults.year, 0, Undefined),
                    "month", month, defaults.month, 1, Num(12)),
                value),
            "hour", Group(value.hour), defaults.hour, 0, Num(23)),
            "minute", Group(value.minute), defaults.minute, 0, Num(59)),
            "second", Group(value.second), defaults.second, 0, Num(59)),
            "ms", Group(value.ms), defaults.ms, 0, Num(999)),
        value))

\* toIsoString (DateObject.toISO): k.toFixed(0).padStart(width, '0') is the
\* decimal text of k, with zeros before it up to the width
toIsoString(value, full) ==
    LET pad(k, width) == IF k >= Pow10(width) THEN NatToString(k) ELSE PadDigits(k, width)
        time == IF full \/ value.hour + value.minute + value.second + value.ms # 0
                THEN "T" \o pad(value.hour, 2) \o ":" \o pad(value.minute, 2)
                     \o ":" \o pad(value.second, 2)
                     \o (IF full \/ value.ms # 0 THEN "." \o pad(value.ms, 3) ELSE "")
                ELSE ""
        tz == IF value.tz.type = "utc" THEN "Z"
              ELSE IF value.tz.type = "offset"
              THEN (IF value.tz.hour < 0 THEN "-" ELSE "+")
                   \o pad(IF value.tz.hour < 0 THEN 0 - value.tz.hour ELSE value.tz.hour, 2)
                   \o (IF full \/ value.tz.minute # 0
                       THEN ":" \o pad(value.tz.minute, 2) ELSE "")
              ELSE ""
    IN  Str(Chars(pad(value.year, 4) \o "-" \o pad(value.month, 2) \o "-"
                  \o pad(value.day, 2) \o time \o tz))

\* parseDateObject (DateObject.parse) with a RegExp format
parseDateObject(value, format) ==
    LET match == Match(format, value.s) IN
    IF match.ok THEN validateRawObject(match.groups)
    ELSE FailureString("Does not match format " \o FormatRegex(format))

\* DateObjectVariable.__parse: the first format whose parse succeeds
RECURSIVE DateObjectVariable_loop(_, _, _)
DateObjectVariable_loop(formats, k, value) ==
    IF k > Len(formats) THEN FailureString("must be in a valid date format.")
    ELSE LET result == parseDateObject(value, formats[k]) IN
         IF result.success THEN result
         ELSE DateObjectVariable_loop(formats, k + 1, value)

DateObjectVariable_uparse(H, self, value) ==
    DateObjectVariable_loop(H.arrays[H.vars[self].formats], 1, value)

RECURSIVE Parse(_, _, _)
RECURSIVE AggregateVariable_loop(_, _, _, _, _, _)

\* the loop of AggregateVariable.__parse: the first member that succeeds is
\* returned, the issues of the members that failed are concatenated
AggregateVariable_loop(H, variables, k, value, issues, calls) ==
    IF k > Len(variables) THEN [result |-> Failure(issues), calls |-> calls]
    ELSE LET r == Parse(H, variables[k], value) IN
         IF r.result.success
         THEN [result |-> r.result, calls |-> calls \o r.calls]
         ELSE AggregateVariable_loop(H, variables, k + 1, value,
                                     issues \o Spread(r.result), calls \o r.calls)

\* AggregateVariable.__parse
AggregateVariable_uparse(H, self, value) ==
    AggregateVariable_loop(H, H.arrays[H.vars[self].variables], 1, value, <<>>, <<>>)

\* the __parse of the class of self (Variable.__parse for a class that does
\* not override it), with the call recorded
TypeParse(H, self, value) ==
    LET class == H.vars[self].class
        r == CASE class = "NumberVariable" -> Ret(NumberVariable_uparse(H, self, value))
               [] class = "JsonVariable" -> JsonVariable_uparse(H, self, value)
               [] class = "IntegerVariable" -> Ret(IntegerVariable_uparse(H, self, value))
               [] class = "EnumVariable" -> Ret(EnumVariable_uparse(H, self, value))
               [] class = "StringVariable" -> StringVariable_uparse(H, self, value)
               [] class = "DateObjectVariable" ->
                     Ret(DateObjectVariable_uparse(H, self, value))
               [] class = "AggregateVariable" -> AggregateVariable_uparse(H, self, value)
               [] OTHER -> Ret(Failure(<<"must never exist">>))
    IN  [result |-> r.result, calls |-> <<Call("__parse", self, value)>> \o r.calls]

\* parse that forgets the optional flag
Variable_parse_NoOptional(H, self, value) ==
    LET o == H.vars[self] IN
    IF value # Undefined THEN TypeParse(H, self, value)
    ELSE IF o.default # Undefined THEN Ret(Success(o.default))
    ELSE Ret(Failure(<<"is required">>))

\* parse that tests the input with if (value), so that "" counts as absent
Variable_parse_Truthy(H, self, value) ==
    LET o == H.vars[self] IN
    IF Truthy(value) THEN TypeParse(H, self, value)
    ELSE IF o.optional THEN Ret(Success(Undefined))
    ELSE IF o.default # Undefined THEN Ret(Success(o.default))
    ELSE Ret(Failure(<<"is required">>))

\* Variable.parse
Variable_parse(H, self, value) ==
    LET o == H.vars[self] IN
    IF value # Undefined THEN TypeParse(H, self, value)
    ELSE IF o.optional THEN Ret(Success(Undefined))
    ELSE IF o.default # Undefined THEN Ret(Success(o.default))
    ELSE Ret(Failure(<<"is required">>))

\* parse that hands the source's result to the transform whether or not the
\* source succeeded
TransformedVariable_parse_Always(H, self, value) ==
    LET o == H.vars[self] IN
    IF value = Undefined /\ (o.optional \/ o.default # Undefined)
    THEN Variable_parse(H, self, value)
    ELSE LET r == Parse(H, o.data.from, value) IN
         [result |-> ApplyTransform(o.data.transform, r.result.value),
          calls |-> Append(r.calls, Call("transform", self, r.result.value))]

\* parse that hands an absent input to the transform without asking the source
TransformedVariable_parse_AbsentDirect(H, self, value) ==
    LET o == H.vars[self] IN
    IF value = Undefined
    THEN [result |-> ApplyTransform(o.data.transform, Undefined),
          calls |-> <<Call("transform", self, Undefined)>>]
    ELSE LET r == Parse(H, o.data.from, value) IN
         IF r.result.success
         THEN [result |-> ApplyTransform(o.data.transform, r.result.value),
               calls |-> Append(r.calls, Call("transform", self, r.result.value))]
         ELSE r

\* TransformedVariable.parse
TransformedVariable_parse(H, self, value) ==
    LET o == H.vars[self] IN
    IF value = Undefined /\ (o.optional \/ o.default # Undefined)
    THEN Variable_parse(H, self, value)
    ELSE LET r == Parse(H, o.data.from, value) IN
         IF r.result.success
         THEN [result |-> ApplyTransform(o.data.transform, r.result.value),
               calls |-> Append(r.calls, Call("transform", self, r.result.value))]
         ELSE r

\* v.parse(value), by the class of v
Parse(H, self, value) ==
    IF H.vars[self].class = "TransformedVariable"
    THEN TransformedVariable_parse(H, self, value)
    ELSE Variable_parse(H, self, value)

(***************************************************************************)
(* The type getter                                                         *)
(***************************************************************************)
RECURSIVE Type(_, _)
RECURSIVE JoinTypes(_, _)

\* variables.map(v => v.type).join('/')
JoinTypes(H, variables) ==
    IF variables = <<>> THEN ""
    ELSE IF Len(variables) = 1 THEN Type(H, variables[1])
    ELSE Type(H, variables[1]) \o "/" \o JoinTypes(H, Tail(variables))

Type(H, self) ==
    LET o == H.vars[self] IN
    CASE o.class = "NumberVariable" -> "number"
      [] o.class = "JsonVariable" -> "Json"
      [] o.class = "IntegerVariable" -> "integer"
      [] o.class = "StringVariable" -> "string"
      [] o.class = "DateObjectVariable" -> "Date"
      [] o.class = "EnumVariable" ->
            IF H.arrays[o.items] = <<>> THEN "never" ELSE EnumType(H.arrays[o.items])
      [] o.class = "AggregateVariable" -> JoinTypes(H, H.arrays[o.variables])
      [] o.class = "TransformedVariable" ->
            "{" \o Type(H, o.data.from) \o "->"
                \o (IF o.data.type = "" THEN "?" ELSE o.data.type) \o "}"
      [] OTHER -> "never"

(***************************************************************************)
(* The operations of the combinator core                                   *)
(***************************************************************************)
Heap == [vars |-> vars, arrays |-> arrays]

\* the classes the v helpers construct directly
Classes == {"Variable", "NumberVariable", "JsonVariable"}

\* the values given to defaultTo (0 is falsy, 10 is truthy)
DefaultValues == {Num(0), Num(10)}

\* the inputs given to parse: absent, or one of these texts
Texts == {<<>>, <<"7">>, <<"0">>, <<"t", "r", "u", "e">>}

Inputs == {Undefined} \cup {Str(t) : t \in Texts}

NoResult == [result |-> Failure(<<>>), calls |-> <<>>]

Op(op, self, other, name, value, ret, parsed) ==
    [op |-> op, self |-> self, other |-> other, name |-> name, value |-> value,
     ret |-> ret, result |-> parsed.result, calls |-> parsed.calls]

Init ==
    /\ vars = <<>>
    /\ arrays = <<>>
    /\ last = Op("init", 0, 0, "", Undefined, 0, NoResult)
    /\ limit = MaxVars

Commit(r, op) ==
    /\ vars' = r.vars
    /\ arrays' = r.arrays
    /\ last' = op
    /\ UNCHANGED limit

\* new Variable(), v.number(), v.json()
New(class) ==
    /\ Len(vars) < limit
    /\ LET r == CASE class = "NumberVariable" -> NumberVariable_constructor(Heap, 0)
                  [] class = "JsonVariable" -> JsonVariable_constructor(Heap, 0)
                  [] OTHER -> AllocVar(Heap, Variable_constructor("Variable", NoFrom))
       IN  Commit(r, Op("new", 0, 0, class, Undefined, r.ret, NoResult))

Optional(self) ==
    /\ Len(vars) < limit
    /\ LET r == Variable_optional(Heap, self)
       IN  Commit(r, Op("optional", self, 0, "", Undefined, r.ret, NoResult))

DefaultTo(self, value) ==
    /\ Len(vars) < limit
    /\ LET r == Variable_defaultTo(Heap, self, value)
       IN  Commit(r, Op("defaultTo", self, 0, "", value, r.ret, NoResult))

Else(self, variable) ==
    /\ Len(vars) < limit
    /\ LET r == Variable_else(Heap, self, variable)
       IN  Commit(r, Op("else", self, variable, "", Undefined, r.ret, NoResult))

Transform(self, transform) ==
    /\ Len(vars) < limit
    /\ LET r == Variable_transform(Heap, self, transform, "")
       IN  Commit(r, Op("transform", self, 0, transform, Undefined, r.ret, NoResult))

JsonValidate(self, validator) ==
    /\ Len(vars) < limit
    /\ vars[self].class = "JsonVariable"
    /\ LET r == JsonVariable_validate(Heap, self, validator)
       IN  Commit(r, Op("validate", self, 0, validator, Undefined, r.ret, NoResult))

DoParse(self, value) ==
    /\ last' = Op("parse", self, 0, "", value, 0, Parse(Heap, self, value))
    /\ UNCHANGED <<vars, arrays, limit>>

Next ==
    \/ \E class \in Classes : New(class)
    \/ \E self \in 1..Len(vars) : Optional(self)
    \/ \E self \in 1..Len(vars) : \E value \in DefaultValues : DefaultTo(self, value)
    \/ \E self \in 1..Len(vars) : \E variable \in 1..Len(vars) : Else(self, variable)
    \/ \E self \in 1..Len(vars) : \E transform \in Transformers : Transform(self, transform)
    \/ \E self \in 1..Len(vars) : \E validator \in JsonValidators : JsonValidate(self, validator)
    \/ \E self \in 1..Len(vars) : \E value \in Inputs : DoParse(self, value)

Spec == Init /\ [][Next]_allVars

(***************************************************************************)
(* Runs that build else-unions of number variables                         *)
(***************************************************************************)
InitUnion ==
    /\ vars = <<>>
    /\ arrays = <<>>
    /\ last = Op("init", 0, 0, "", Undefined, 0, NoResult)
    /\ limit = MaxUnionVars

NextUnion ==
    \/ New("NumberVariable")
    \/ \E self \in 1..Len(vars) : Optional(self)
    \/ \E self \in 1..Len(vars) : \E value \in DefaultValues : DefaultTo(self, value)
    \/ \E self \in 1..Len(vars) : \E variable \in 1..Len(vars) : Else(self, variable)
    \/ \E self \in 1..Len(vars) : DoParse(self, Undefined)

SpecUnion == InitUnion /\ [][NextUnion]_allVars

(***************************************************************************)
(* Runs that configure the typed variables                                 *)
(***************************************************************************)
\* the inputs given to parse: absent, or one of these texts
ConfigInputs ==
    {Undefined} \cup {Str(t) : t \in {<<"c", "a", "t">>, <<"D", "O", "G">>, <<"7">>, <<"7", ".", "5">>, <<"0", "x", "1", "0">>,
     <<"A", "1">>, <<"a", "-">>, <<"2", "0", "2", "4", "-", "0", "2", "-", "1", "0">>,
     <<"2", "0", "2", "4", "-", "0", "2", "-", "1", "0", " ", "1", "0", ":", "3", "0">>,
     <<"1", "0", ":", "3", "0">>}}

InitConfig ==
    /\ vars = <<>>
    /\ arrays = <<>>
    /\ last = Op("init", 0, 0, "", Undefined, 0, NoResult)
    /\ limit = MaxConfigVars

NewConfig(class) ==
    /\ Len(vars) < limit
    /\ LET r == CASE class = "NumberVariable" -> NumberVariable_constructor(Heap, 0)
                  [] class = "IntegerVariable" -> IntegerVariable_constructor(Heap, 0)
                  [] class = "EnumVariable" -> EnumVariable_constructor(Heap, 0)
                  [] class = "StringVariable" -> StringVariable_constructor(Heap, 0)
                  [] OTHER -> DateObjectVariable_constructor(Heap, 0, <<>>)
       IN  Commit(r, Op("new", 0, 0, class, Undefined, r.ret, NoResult))

Min(self, value) ==
    /\ Len(vars) < limit
    /\ vars[self].class \in {"NumberVariable", "IntegerVariable"}
    /\ LET r == IF vars[self].class = "NumberVariable"
                THEN NumberVariable_min(Heap, self, value)
                ELSE IntegerVariable_min(Heap, self, value)
       IN  Commit(r, Op("min", self, 0, "", value, r.ret, NoResult))

Max(self, value) ==
    /\ Len(vars) < limit
    /\ vars[self].class \in {"NumberVariable", "IntegerVariable"}
    /\ LET r == IF vars[self].class = "NumberVariable"
                THEN NumberVariable_max(Heap, self, value)
                ELSE IntegerVariable_max(Heap, self, value)
       IN  Commit(r, Op("max", self, 0, "", value, r.ret, NoResult))

EnumValue(self, value) ==
    /\ Len(vars) < limit
    /\ vars[self].class = "EnumVariable"
    /\ LET r == EnumVariable_value(Heap, self, value)
       IN  Commit(r, Op("value", self, 0, "", Str(value), r.ret, NoResult))

Insensitive(self) ==
    /\ Len(vars) < limit
    /\ vars[self].class = "EnumVariable"
    /\ LET r == EnumVariable_insensitive(Heap, self)
       IN  Commit(r, Op("insensitive", self, 0, "", Undefined, r.ret, NoResult))

Sensitive(self) ==
    /\ Len(vars) < limit
    /\ vars[self].class = "EnumVariable"
    /\ LET r == EnumVariable_sensitive(Heap, self)
       IN  Commit(r, Op("sensitive", self, 0, "", Undefined, r.ret, NoResult))

StringValidate(self, validator) ==
    /\ Len(vars) < limit
    /\ vars[self].class = "StringVariable"
    /\ LET r == StringVariable_validate(Heap, self, validator)
       IN  Commit(r, Op("validate", self, 0, validator, Undefined, r.ret, NoResult))

StringRegex(self, regex) ==
    /\ Len(vars) < limit
    /\ vars[self].class = "StringVariable"
    /\ LET r == StringVariable_regex(Heap, self, regex)
       IN  Commit(r, Op("regex", self, 0, regex, Undefined, r.ret, NoResult))

DateFormat(self, regex, clear) ==
    /\ Len(vars) < limit
    /\ vars[self].class = "DateObjectVariable"
    /\ LET r == DateObjectVariable_format(Heap, self, regex, clear)
       IN  Commit(r, Op(IF clear THEN "formatClear" ELSE "format", self, 0, regex[1],
                        Undefined, r.ret, NoResult))

\* the typed variables of v.number(), v.integer(), v.enum(), v.string() and
\* v.dateobject(); min and max are given 5 or 7.5, value 'cat' or 'Dog',
\* format the custom format or the list [date, time]
NextConfig ==
    \/ \E class \in {"NumberVariable", "IntegerVariable", "EnumVariable", "StringVariable",
                      "DateObjectVariable"} : NewConfig(class)
    \/ \E self \in 1..Len(vars) : \E value \in {Num(5), Normalise(75, 1)} : Min(self, value)
    \/ \E self \in 1..Len(vars) : \E value \in {Num(5), Normalise(75, 1)} : Max(self, value)
    \/ \E self \in 1..Len(vars) : \E value \in {<<"c", "a", "t">>, <<"D", "o", "g">>} :
          EnumValue(self, value)
    \/ \E self \in 1..Len(vars) : Insensitive(self)
    \/ \E self \in 1..Len(vars) : Sensitive(self)
    \/ \E self \in 1..Len(vars) : \E validator \in StringValidators :
          StringValidate(self, validator)
    \/ \E self \in 1..Len(vars) : \E regex \in Regexes : StringRegex(self, regex)
    \/ \E self \in 1..Len(vars) : \E regex \in {<<"custom">>, <<"date", "time">>} : \E clear \in BOOLEAN :
          DateFormat(self, regex, clear)

SpecConfig == InitConfig /\ [][NextConfig]_allVars

(***************************************************************************)
(* Runs that configure the typed variables and parse with them             *)
(***************************************************************************)
\* the inputs given to parse: absent, or one of these texts
TypedInputs ==
    {Undefined} \cup {Str(t) : t \in {<<>>, <<"c", "a", "t">>, <<"D", "O", "G">>, <<"5">>, <<"7">>, <<"8">>,
     <<"7", ".", "5">>, <<"1", "2", ".", "3", "4">>, <<"-", "3">>, <<"0", "b", "1", "1", "0", "1">>,
     <<"0", "x", "1", "A">>, <<"0", "X", "0", "8">>, <<"A", "1">>, <<"a", "-">>}}

\* one variable of v.number(), v.integer(), v.enum() or v.string()
InitTyped ==
    \E class \in {"NumberVariable", "IntegerVariable", "EnumVariable", "StringVariable"} :
        LET H == [vars |-> <<>>, arrays |-> <<>>]
            r == CASE class = "NumberVariable" -> NumberVariable_constructor(H, 0)
                   [] class = "IntegerVariable" -> IntegerVariable_constructor(H, 0)
                   [] class = "EnumVariable" -> EnumVariable_constructor(H, 0)
                   [] OTHER -> StringVariable_constructor(H, 0)
        IN  /\ vars = r.vars
            /\ arrays = r.arrays
            /\ last = Op("new", 0, 0, class, Undefined, r.ret, NoResult)
            /\ limit = MaxTypedVars

\* the configuration methods of the variable and of those derived from it,
\* and parse; min and max are given 5 or 7.5, value 'cat' or 'Dog'
NextTyped ==
    \/ \E self \in 1..Len(vars) : \E value \in {Num(5), Normalise(75, 1)} : Min(self, value)
    \/ \E self \in 1..Len(vars) : \E value \in {Num(5), Normalise(75, 1)} : Max(self, value)
    \/ \E self \in 1..Len(vars) : \E value \in {<<"c", "a", "t">>, <<"D", "o", "g">>} :
          EnumValue(self, value)
    \/ \E self \in 1..Len(vars) : Insensitive(self)
    \/ \E self \in 1..Len(vars) : Sensitive(self)
    \/ \E self \in 1..Len(vars) : \E validator \in StringValidators :
          StringValidate(self, validator)
    \/ \E self \in 1..Len(vars) : \E regex \in Regexes : StringRegex(self, regex)
    \/ \E self \in 1..Len(vars) : \E value \in TypedInputs : DoParse(self, value)

SpecTyped == InitTyped /\ [][NextTyped]_allVars

(***************************************************************************)
(* Schema resolution: parseValues and parseResults                         *)
(***************************************************************************)
\* Variable.from(name): a new Variable tagged with the name
Variable_from(H, self, name) ==
    LET r == Clone(H, self)
        o == r.vars[r.ret]
    IN  [r EXCEPT !.vars[r.ret] =
            [x \in DOMAIN o \cup {"name"} |-> IF x = "name" THEN Str(Chars(name)) ELSE o[x]]]

\* Variable.name: the name given with from, or undefined
Variable_name(o) == IF "name" \in DOMAIN o THEN o.name ELSE Undefined

\* variable.parse(value) of every Variable of the heap on every value the data
\* object holds and on undefined: parsed[x][value] is what the call leaves
Variable_parses(H, data) ==
    [x \in 1..Len(H.vars) |->
        [value \in {data[key] : key \in DOMAIN data} \cup {Undefined} |-> Parse(H, x, value)]]

\* A schema node is a Variable (kind "var", var its reference), a
\* VariableObject (kind "obj", its entries in order as keys and kids) or an
\* array of VariableObjects (kind "arr", kids).  A node of the output has the
\* same form, with leaf the value or the Result at a leaf.
SchemaNode(kind, var, keys, kids) == [kind |-> kind, var |-> var, keys |-> keys, kids |-> kids]

OutNode(kind, keys, kids, leaf) == [kind |-> kind, keys |-> keys, kids |-> kids, leaf |-> leaf]

\* data[key]
Lookup(data, key) == IF key \in DOMAIN data THEN data[key] ELSE Undefined

\* results[key] = node, for a key the object does not have yet
Put(results, key, node) ==
    [results EXCEPT !.keys = Append(@, key), !.kids = Append(@, node)]

\* a lookup that ignores the name given with from
parseValues_value_KeyOnly(subvars, key, data) == Lookup(data, key)

\* const value = data[subvars.name ?? key], in _parseValues and _parseResults
parseValues_value(subvars, key, data) ==
    Lookup(data, IF Variable_name(subvars) # Undefined THEN Flat(Variable_name(subvars).s)
                 ELSE key)

\* a leaf branch that reports the first failing leaf only
parseValues_leaf_FirstIssue(acc, parent, key, p) ==
    [results |-> IF p.result.success
                 THEN Put(acc.results, key, OutNode("value", <<>>, <<>>, p.result.value))
                 ELSE acc.results,
     issues |-> IF p.result.success \/ acc.issues # <<>> THEN acc.issues
                ELSE <<[key |-> Append(parent, Str(Chars(key))),
                        issues |-> p.result.error,
                        bare |-> p.result.bare]>>,
     calls |-> acc.calls \o p.calls]

\* the leaf branch of _parseValues, p the outcome of subvars.parse(value)
parseValues_leaf(acc, parent, key, p) ==
    [results |-> IF p.result.success
                 THEN Put(acc.results, key, OutNode("value", <<>>, <<>>, p.result.value))
                 ELSE acc.results,
     issues |-> IF p.result.success THEN acc.issues
                ELSE Append(acc.issues, [key |-> Append(parent, Str(Chars(key))),
                                         issues |-> p.result.error,
                                         bare |-> p.result.bare]),
     calls |-> acc.calls \o p.calls]

\* one turn of the loop over the alternatives, sub the outcome of the
\* alternative: its issues are kept, or its results are stored and the loop
\* is left
parseValues_alternative(st, key, sub) ==
    IF Len(sub.issues) > 0
    THEN [st EXCEPT !.arrayissues = @ \o sub.issues, !.calls = sub.calls]
    ELSE [st EXCEPT !.results = Put(@, key, sub.results), !.arrayissues = <<>>,
                    !.calls = sub.calls, !.break = TRUE]

RECURSIVE _parseValues(_, _, _, _, _, _, _)
RECURSIVE parseValues_array(_, _, _, _, _, _, _, _)

\* the array branch of _parseValues: for (let i = 0; i < subvars.length; i++),
\* and after the loop if (arrayissues.length) issues.push(...arrayissues)
parseValues_array(H, parsed, subvars, data, parent, key, i, st) ==
    IF i >= Len(subvars) \/ st.break
    THEN [results |-> st.results, issues |-> st.issues \o st.arrayissues, calls |-> st.calls]
    ELSE parseValues_array(H, parsed, subvars, data, parent, key, i + 1,
             parseValues_alternative(st, key,
                 _parseValues(H, parsed, subvars[i + 1], data,
                              parent \o <<Str(Chars(key)), Str(Chars(NatToString(i)))>>, 1,
                              [results |-> OutNode("obj", <<>>, <<>>, Undefined),
                               issues |-> <<>>, calls |-> st.calls])))

\* the object branch of _parseValues, sub the outcome of the nested call
parseValues_object(acc, key, sub) ==
    [results |-> Put(acc.results, key, sub.results), issues |-> sub.issues,
     calls |-> sub.calls]

\* _parseValues(vars, data, results, parent, issues), from entry k on (the
\* parameter vars is schema here); acc holds results and issues, and the
\* calls to parse in order
_parseValues(H, parsed, schema, data, parent, k, acc) ==
    IF k > Len(schema.keys) THEN acc
    ELSE _parseValues(H, parsed, schema, data, parent, k + 1,
        CASE schema.kids[k].kind = "var" ->
                parseValues_leaf(acc, parent, schema.keys[k],
                    parsed[schema.kids[k].var][
                        parseValues_value(H.vars[schema.kids[k].var], schema.keys[k], data)])
          [] schema.kids[k].kind = "arr" ->
                parseValues_array(H, parsed, schema.kids[k].kids, data, parent, schema.keys[k], 0,
                    [results |-> acc.results, issues |-> acc.issues, arrayissues |-> <<>>,
                     calls |-> acc.calls, break |-> FALSE])
          [] OTHER ->
                parseValues_object(acc, schema.keys[k],
                    _parseValues(H, parsed, schema.kids[k], data, Append(parent, Str(Chars(schema.keys[k]))), 1,
                                 [results |-> OutNode("obj", <<>>, <<>>, Undefined),
                                  issues |-> acc.issues, calls |-> acc.calls])))

\* what a call leaves: the error it threw ("" if none), the value it
\* returned, the issues of a VariableError, and the calls to parse it made
Outcome(thrown, value, issues, calls) ==
    [thrown |-> thrown, value |-> value, issues |-> issues, calls |-> calls]

NoOutNode == OutNode("none", <<>>, <<>>, Undefined)

\* the bare-Variable branch of parseValues, p the outcome of vars.parse
parseValues_variable(name, p) ==
    IF p.result.success
    THEN Outcome("", OutNode("value", <<>>, <<>>, p.result.value), <<>>, p.calls)
    ELSE Outcome("VariableError", NoOutNode,
                 <<[key |-> <<name>>, issues |-> p.result.error, bare |-> p.result.bare]>>,
                 p.calls)

\* a return that hands out the results collected so far whatever the issues
parseValues_return_Partial(r) == Outcome("", r.results, r.issues, r.calls)

\* the object branch of parseValues, r what _parseValues left
parseValues_return(r) ==
    IF Len(r.issues) = 0 THEN Outcome("", r.results, <<>>, r.calls)
    ELSE Outcome("VariableError", NoOutNode, r.issues, r.calls)

\* parseValues that does not ask whether a bare Variable has a name
parseValues_NoNameCheck(H, schema, data, parsed) ==
    IF schema.kind = "var"
    THEN parseValues_variable(Variable_name(H.vars[schema.var]),
             parsed[schema.var][
                 Lookup(data, IF Variable_name(H.vars[schema.var]) = Undefined
                              THEN "undefined"
                              ELSE Flat(Variable_name(H.vars[schema.var]).s))])
    ELSE parseValues_return(
             _parseValues(H, parsed, schema, data, <<>>, 1,
                          [results |-> OutNode("obj", <<>>, <<>>, Undefined),
                           issues |-> <<>>, calls |-> <<>>]))

\* parseValues(vars, data), parsed what each call to parse leaves
parseValues(H, schema, data, parsed) ==
    IF schema.kind = "var"
    THEN IF ~Truthy(Variable_name(H.vars[schema.var]))
         THEN Outcome("Error", NoOutNode, <<>>, <<>>)
         ELSE parseValues_variable(Variable_name(H.vars[schema.var]),
                  parsed[schema.var][Lookup(data, Flat(Variable_name(H.vars[schema.var]).s))])
    ELSE parseValues_return(
             _parseValues(H, parsed, schema, data, <<>>, 1,
                          [results |-> OutNode("obj", <<>>, <<>>, Undefined),
                           issues |-> <<>>, calls |-> <<>>]))

\* a leaf branch that stores the Result of a leaf only when it succeeded
parseResults_leaf_SuccessOnly(acc, key, p) ==
    [results |-> IF p.result.success
                 THEN Put(acc.results, key, OutNode("result", <<>>, <<>>, p.result))
                 ELSE acc.results,
     calls |-> acc.calls \o p.calls]

\* the leaf branch of _parseResults: results[key] = result
parseResults_leaf(acc, key, p) ==
    [results |-> Put(acc.results, key, OutNode("result", <<>>, <<>>, p.result)),
     calls |-> acc.calls \o p.calls]

\* a map that keeps the tree of the first alternative only
parseResults_item_First(st, sub) ==
    [results |-> [st.results EXCEPT !.kids = IF @ = <<>> THEN <<sub.results>> ELSE @],
     calls |-> sub.calls]

\* one element of subvars.map(...), sub the outcome of _parseResults on it
parseResults_item(st, sub) ==
    [results |-> [st.results EXCEPT !.kids = Append(@, sub.results)], calls |-> sub.calls]

\* the array and object branches of _parseResults: results[key] = ...
parseResults_node(acc, key, sub) ==
    [results |-> Put(acc.results, key, sub.results), calls |-> sub.calls]

RECURSIVE _parseResults(_, _, _, _, _, _)
RECURSIVE parseResults_map(_, _, _, _, _, _)

\* subvars.map(subvaritem => _parseResults(subvaritem, data, {}))
parseResults_map(H, parsed, subvars, data, i, st) ==
    IF i >= Len(subvars) THEN st
    ELSE parseResults_map(H, parsed, subvars, data, i + 1,
             parseResults_item(st,
                 _parseResults(H, parsed, subvars[i + 1], data, 1,
                               [results |-> OutNode("obj", <<>>, <<>>, Undefined),
                                calls |-> st.calls])))

\* _parseResults(vars, data, results), from entry k on
_parseResults(H, parsed, schema, data, k, acc) ==
    IF k > Len(schema.keys) THEN acc
    ELSE _parseResults(H, parsed, schema, data, k + 1,
        CASE schema.kids[k].kind = "var" ->
                parseResults_leaf(acc, schema.keys[k],
                    parsed[schema.kids[k].var][
                        parseValues_value(H.vars[schema.kids[k].var], schema.keys[k], data)])
          [] schema.kids[k].kind = "arr" ->
                parseResults_node(acc, schema.keys[k],
                    parseResults_map(H, parsed, schema.kids[k].kids, data, 0,
                        [results |-> OutNode("arr", <<>>, <<>>, Undefined),
                         calls |-> acc.calls]))
          [] OTHER ->
                parseResults_node(acc, schema.keys[k],
                    _parseResults(H, parsed, schema.kids[k], data, 1,
                                  [results |-> OutNode("obj", <<>>, <<>>, Undefined),
                                   calls |-> acc.calls])))

\* parseResults(vars, data), parsed what each call to parse leaves
parseResults(H, schema, data, parsed) ==
    IF schema.kind = "var"
    THEN IF ~Truthy(Variable_name(H.vars[schema.var]))
         THEN Outcome("Error", NoOutNode, <<>>, <<>>)
         ELSE LET p == parsed[schema.var][Lookup(data, Flat(Variable_name(H.vars[schema.var]).s))]
              IN  Outcome("", OutNode("result", <<>>, <<>>, p.result), <<>>, p.calls)
    ELSE LET r == _parseResults(H, parsed, schema, data, 1,
                                [results |-> OutNode("obj", <<>>, <<>>, Undefined),
                                 calls |-> <<>>])
         IN  Outcome("", r.results, <<>>, r.calls)

(***************************************************************************)
(* Runs that resolve schemas against data objects                          *)
(***************************************************************************)
\* the schemas given to parseValues and parseResults, x, y and z the
\* Variables at their leaves:
\*   x     {a: x, b: {c: y}}     {a: {a: x}, c: y}
\*   {a: [{b: x1}, {c: x2}, ...], c: y}     {a: [{b: x, c: {b: y}}, {c: z}]}
\* the third with 1 to MaxAlternatives alternatives
Schemas ==
    LET AlternativeKeys == <<"b", "c", "a", "N">>
        Leaf(x) == SchemaNode("var", x, <<>>, <<>>)
        Obj(keys, kids) == SchemaNode("obj", 0, keys, kids)
        Arr(kids) == SchemaNode("arr", 0, <<>>, kids)
        V == 1..Len(vars)
    IN  {Leaf(x) : x \in V}
        \cup {Obj(<<"a", "b">>, <<Leaf(x), Obj(<<"c">>, <<Leaf(y)>>)>>) : x \in V, y \in V}
        \cup {Obj(<<"a", "c">>, <<Obj(<<"a">>, <<Leaf(x)>>), Leaf(y)>>) : x \in V, y \in V}
        \cup UNION {{Obj(<<"a", "c">>,
                         <<Arr([i \in 1..n |-> Obj(<<AlternativeKeys[i]>>, <<Leaf(f[i])>>)]),
                           Leaf(y)>>) : f \in [1..n -> V], y \in V} : n \in 1..MaxAlternatives}
        \cup {Obj(<<"a">>, <<Arr(<<Obj(<<"b", "c">>, <<Leaf(x), Obj(<<"b">>, <<Leaf(y)>>)>>),
                                   Obj(<<"c">>, <<Leaf(z)>>)>>)>>) : x \in V, y \in V, z \in V}

\* number(), number().optional() and number().from('N') are constructed, and
\* a schema over them and a data object are at hand; the data object has
\* each key absent, a number text or another text
InitSchema ==
    LET r1 == NumberVariable_constructor([vars |-> <<>>, arrays |-> <<>>], 0)
        r2 == Variable_optional(HeapOf(r1), r1.ret)
        r3 == Variable_from(HeapOf(r2), r1.ret, "N")
    IN  /\ vars = r3.vars
        /\ arrays = r3.arrays
        /\ limit = Len(r3.vars)
        /\ \E schema \in Schemas :
           \E data \in [{"a", "b", "c", "N"} -> {Undefined, Str(<<"7">>), Str(<<"x">>)}] :
              last = [op |-> "init", schema |-> schema, data |-> data,
                      out |-> Outcome("", NoOutNode, <<>>, <<>>)]

\* parseValues(vars, data) and parseResults(vars, data), called with
\* the schema and the data object at hand
ParseValues ==
    /\ last' = [last EXCEPT !.op = "parseValues",
                            !.out = parseValues(Heap, last.schema, last.data,
                                               Variable_parses(Heap, last.data))]
    /\ UNCHANGED <<vars, arrays, limit>>

ParseResults ==
    /\ last' = [last EXCEPT !.op = "parseResults",
                            !.out = parseResults(Heap, last.schema, last.data,
                                                 Variable_parses(Heap, last.data))]
    /\ UNCHANGED <<vars, arrays, limit>>

NextSchema == ParseValues \/ ParseResults

SpecSchema == InitSchema /\ [][NextSchema]_allVars

(***************************************************************************)
(* Runs that parse and print dates                                         *)
(***************************************************************************)
\* the texts given to parse: every date of the years, months and days
\* below; dates with a time and a timezone, in and out of range; partial
\* dates and texts that are no date
DateTexts ==
    LET years == {"0000", "1900", "2000", "2023", "2024"}
        months == {"00", "01", "02", "04", "12", "13"}
        days == {"00", "01", "28", "29", "30", "31", "32"}
        times == {"T00:00", "T11:12:34", " 23:59:59.999", "T24:60", "T12:30:61.000"}
        timezones == {"", "Z", "z", "+05:30", "-14:00", "+14:00", "+14:01", "-15:00",
                      "+00:00"}
    IN  {Chars(y \o "-" \o m \o "-" \o d) : y \in years, m \in months, d \in days}
        \cup {Chars(d \o t \o z) : d \in {"2024-01-09", "2023-13-32"}, t \in times,
                                   z \in timezones}
        \cup {Chars(t) : t \in {"2024", "2024-02", "invalid", "2022-1-9", "12:30",
                                "12:30Z", "2022-01-09 12:30"}}

\* the DateObjects given to toISO: valid dates with each kind of timezone
Dates ==
    {[year |-> y, month |-> m, day |-> d, hour |-> h, minute |-> mi, second |-> sec,
      ms |-> ms, tz |-> tz] :
        y \in {0, 5, 2024}, m \in {1, 12}, d \in {1, 31}, h \in {0, 23}, mi \in {0, 59},
        sec \in {0, 59}, ms \in {0, 7, 999},
        tz \in {[type |-> "local", hour |-> 0, minute |-> 0],
                [type |-> "utc", hour |-> 0, minute |-> 0],
                [type |-> "offset", hour |-> 5, minute |-> 30],
                [type |-> "offset", hour |-> 0 - 14, minute |-> 0],
                [type |-> "offset", hour |-> 0, minute |-> 0]}}

NoDate == [year |-> 0 - 1]

DateOp(op, self, name, value, date, parsed) ==
    [op |-> op, self |-> self, name |-> name, value |-> value, date |-> date,
     result |-> parsed.result, calls |-> parsed.calls]

\* v.dateobject() and v.dateobject().format(customFormat, true) are
\* constructed, and a text or a DateObject is at hand
InitDate ==
    LET r1 == DateObjectVariable_constructor([vars |-> <<>>, arrays |-> <<>>], 0, <<>>)
        r2 == DateObjectVariable_format(HeapOf(r1), r1.ret, <<"custom">>, TRUE)
    IN  /\ vars = r2.vars
        /\ arrays = r2.arrays
        /\ limit = Len(r2.vars)
        /\ \/ \E text \in DateTexts :
                 last = DateOp("init", 0, "", Str(text), NoDate, NoResult)
           \/ \E date \in Dates :
                 last = DateOp("init", 0, "", Undefined, date, NoResult)

\* variable.parse(value) of the text at hand
ParseDate(self) ==
    /\ last.value.tag = "string"
    /\ last' = DateOp("parse", self, "", last.value, last.date, Parse(Heap, self, last.value))
    /\ UNCHANGED <<vars, arrays, limit>>

\* DateObject.parse(value, format) of the text at hand
DateObjectParse(format) ==
    /\ last.value.tag = "string"
    /\ last' = DateOp("DateObject.parse", 0, format, last.value, last.date,
                      Ret(parseDateObject(last.value, format)))
    /\ UNCHANGED <<vars, arrays, limit>>

\* DateObject.toISO(value, full) of the DateObject at hand: its text is then
\* the text at hand
DateObjectToISO(full) ==
    /\ last.op = "init"
    /\ last.date # NoDate
    /\ last' = DateOp("DateObject.toISO", 0, IF full THEN "full" ELSE "",
                      toIsoString(last.date, full), last.date, NoResult)
    /\ UNCHANGED <<vars, arrays, limit>>

NextDate ==
    \/ \E self \in 1..Len(vars) : ParseDate(self)
    \/ \E format \in {"datetimeTz", "date", "timeTz"} : DateObjectParse(format)
    \/ \E full \in BOOLEAN : DateObjectToISO(full)

SpecDate == InitDate /\ [][NextDate]_allVars

(***************************************************************************)
(* DataObjectBuilder (src/data/DataObjectBuilder.ts)                       *)
(*                                                                         *)
(* A plain object is a function from its keys to its values and lives in   *)
(* the array heap; a builder lives in the object heap and holds in data    *)
(* the reference of the object its #data field points to.  Each operator   *)
(* returns the heap after the call and what the call returned.             *)
(***************************************************************************)
\* largest number of builders on the heap
MaxBuilders == 3

\* largest number of plain objects the caller holds
MaxObjects == 3

\* { ...data, ...object }
SpreadObjects(data, object) ==
    [key \in DOMAIN data \cup DOMAIN object |->
        IF key \in DOMAIN object THEN object[key] ELSE data[key]]

\* JSON.stringify of a number or a boolean
JSON_stringify(value) ==
    IF value.tag = "number" THEN Str(Chars(NumToString(value)))
    ELSE IF value.tag = "boolean"
         THEN Str(Chars(IF value.n = 1 THEN "true" ELSE "false"))
         ELSE value

RECURSIVE DataObjectBuilder_merge(_, _, _)
\* the loop of the constructor: data = { ...data, ...object } for each object
DataObjectBuilder_merge(objects, k, data) ==
    IF k > Len(objects) THEN data
    ELSE DataObjectBuilder_merge(objects, k + 1, SpreadObjects(data, objects[k]))

\* new DataObjectBuilder(...objects): #data is a fresh object
DataObjectBuilder_constructor(H, objects) ==
    [vars |-> Append(H.vars, [class |-> "DataObjectBuilder",
                              data |-> Len(H.arrays) + 1]),
     arrays |-> Append(H.arrays, DataObjectBuilder_merge(objects, 1, <<>>)),
     ret |-> Len(H.vars) + 1]

\* addDataObject that writes the added keys into the builder's own #data
DataObjectBuilder_addDataObject_InPlace(H, self, data) ==
    [vars |-> Append(H.vars, [class |-> "DataObjectBuilder",
                              data |-> H.vars[self].data]),
     arrays |-> [H.arrays EXCEPT ![H.vars[self].data] = SpreadObjects(@, data)],
     ret |-> Len(H.vars) + 1]

\* addDataObject(data)
DataObjectBuilder_addDataObject(H, self, data) ==
    DataObjectBuilder_constructor(H, <<H.arrays[H.vars[self].data], data>>)

\* addObject(object): the values that are not strings are stringified
DataObjectBuilder_addObject(H, self, object) ==
    LET data == [key \in DOMAIN object |->
                    IF object[key].tag = "string" THEN object[key]
                    ELSE JSON_stringify(object[key])]
    IN  DataObjectBuilder_addDataObject(H, self, data)

\* toDataObject(): { ...this.#data }, a fresh object
DataObjectBuilder_toDataObject(H, self) ==
    [vars |-> H.vars,
     arrays |-> Append(H.arrays, SpreadObjects(<<>>, H.arrays[H.vars[self].data])),
     ret |-> Len(H.arrays) + 1]

(***************************************************************************)
(* Runs that build data objects                                            *)
(*                                                                         *)
(* The caller of test/DataObject.test.ts: it holds two literal objects and *)
(* an empty builder, adds objects to builders, takes data objects out of   *)
(* them and writes to the objects it holds.  last.handles is the set of    *)
(* the plain objects the caller holds a reference to.                      *)
(***************************************************************************)
\* the objects given to addObject
BuilderObjects ==
    { ("key1" :> Num(10)),
      ("key2" :> Str(Chars("value3")) @@ "key3" :> Bool(TRUE)) }

\* the writes of the caller to an object it holds
BuilderWrites ==
    { [key |-> "key1", value |-> Str(Chars("changed"))] }

BuilderOp(op, self, ret, data, handles) ==
    [op |-> op, self |-> self, ret |-> ret, data |-> data,
     handles |-> handles]

InitBuilder ==
    LET data1 == ("key1" :> Str(Chars("value1")))
        data2 == ("key2" :> Str(Chars("value2")))
        r == DataObjectBuilder_constructor(
                 [vars |-> <<>>, arrays |-> <<data1, data2>>], <<>>)
    IN  /\ vars = r.vars
        /\ arrays = r.arrays
        /\ last = BuilderOp("new", 0, r.ret, <<>>, {1, 2})
        /\ limit = MaxBuilders

\* self.addDataObject(object), object being held by the caller
AddDataObject(self, object) ==
    /\ Len(vars) < limit
    /\ LET r == DataObjectBuilder_addDataObject(Heap, self, arrays[object])
       IN  /\ vars' = r.vars
           /\ arrays' = r.arrays
           /\ last' = BuilderOp("addDataObject", self, r.ret,
                                arrays[object], last.handles)
    /\ UNCHANGED limit

\* self.addObject(object)
AddObject(self, object) ==
    /\ Len(vars) < limit
    /\ LET r == DataObjectBuilder_addObject(Heap, self, object)
       IN  /\ vars' = r.vars
           /\ arrays' = r.arrays
           /\ last' = BuilderOp("addObject", self, r.ret, object,
                                last.handles)
    /\ UNCHANGED limit

\* self.toDataObject(), the caller keeping what it returns
ToDataObject(self) ==
    /\ Cardinality(last.handles) < MaxObjects
    /\ LET r == DataObjectBuilder_toDataObject(Heap, self)
       IN  /\ vars' = r.vars
           /\ arrays' = r.arrays
           /\ last' = BuilderOp("toDataObject", self, r.ret, <<>>,
                                last.handles \cup {r.ret})
    /\ UNCHANGED limit

\* object[key] = value, on an object the caller holds
Mutate(object, write) ==
    /\ arrays' = [arrays EXCEPT
                    ![object] = SpreadObjects(@, (write.key :> write.value))]
    /\ last' = BuilderOp("mutate", 0, object, (write.key :> write.value),
                         last.handles)
    /\ UNCHANGED <<vars, limit>>

NextBuilder ==
    \/ \E self \in 1..Len(vars) :
          \/ \E object \in last.handles : AddDataObject(self, object)
          \/ \E object \in BuilderObjects : AddObject(self, object)
          \/ ToDataObject(self)
    \/ \E object \in last.handles, write \in BuilderWrites :
          Mutate(object, write)

SpecBuilder == InitBuilder /\ [][NextBuilder]_allVars

(***************************************************************************)
(* Properties                                                              *)
(***************************************************************************)
Present == Inputs \ {Undefined}

Combinators == {"optional", "defaultTo", "else", "transform"}

IsParse == last.op = "parse"

Called(fn) == \E k \in 1..Len(last.calls) : last.calls[k].fn = fn

\* what the base class does with an absent input, optional first
AbsentResult(o) ==
    IF o.optional THEN Success(Undefined)
    ELSE IF o.default # Undefined THEN Success(o.default)
    ELSE Failure(<<"is required">>)

\* C1: optional(), defaultTo(x), else(w) and transform(f) leave isOptional and
\* default of the receiver (and of every other existing variable) as they
\* were, and return an instance that did not exist before the call.
C1_Immutable ==
    [][last'.op \in Combinators =>
          /\ last'.ret \notin 1..Len(vars)
          /\ last'.ret \in 1..Len(vars')
          /\ \A i \in 1..Len(vars) :
                /\ vars'[i].optional = vars[i].optional
                /\ vars'[i].default = vars[i].default]_allVars

\* a call has returned a clone whose optional flag or default differs from
\* that of its receiver
C1_Witness ==
    /\ last.op \in {"optional", "defaultTo"}
    /\ \/ vars[last.ret].optional # vars[last.self].optional
       \/ vars[last.ret].default # vars[last.self].default

\* C2: no variable built by optional(), defaultTo(x), else(w) and transform(f)
\* is optional and has a default at the same time.
C2_OptionalClearsDefault ==
    \A i \in 1..Len(vars) : vars[i].optional => vars[i].default = Undefined

\* C3 (as claimed): parse of an absent input calls no type-specific parse
\* routine and returns the default if one is set, undefined if the variable is
\* optional, and the failure ["is required"] otherwise.
C3_AbsentAsClaimed ==
    (IsParse /\ last.value = Undefined) =>
        /\ ~Called("__parse")
        /\ last.result =
              IF vars[last.self].default # Undefined
              THEN Success(vars[last.self].default)
              ELSE IF vars[last.self].optional THEN Success(Undefined)
              ELSE Failure(<<"is required">>)

\* C3 (amended): parse of an absent input calls no type-specific parse
\* routine; a variable that is not a TransformedVariable returns undefined if
\* it is optional, else its default if one is set, else the failure
\* ["is required"]; a TransformedVariable returns the failure of its source,
\* or its transform applied to what the source returned.
C3_Absent ==
    (IsParse /\ last.value = Undefined) =>
        /\ ~Called("__parse")
        /\ vars[last.self].class # "TransformedVariable" =>
              last.result = AbsentResult(vars[last.self])
        /\ vars[last.self].class = "TransformedVariable" =>
              LET r == Parse(Heap, vars[last.self].data.from, Undefined).result IN
              last.result = IF r.success
                            THEN ApplyTransform(vars[last.self].data.transform, r.value)
                            ELSE r

\* an absent input was parsed by a variable with a default, which was returned
C3_Witness ==
    /\ IsParse
    /\ last.value = Undefined
    /\ vars[last.self].default = Num(10)
    /\ last.result = Success(Num(10))

\* C4: parse("") reaches type-specific parsing, whether the variable is
\* required, optional or defaulted: the first thing it does is to call a
\* __parse with "", and it returns neither the default, nor success(undefined),
\* nor the failure ["is required"].
C4_EmptyIsPresent ==
    (IsParse /\ last.value = Str(<<>>)) =>
        /\ last.calls # <<>>
        /\ last.calls[1].fn = "__parse"
        /\ last.calls[1].arg = Str(<<>>)
        /\ last.result # Success(Undefined)
        /\ last.result # Failure(<<"is required">>)
        /\ vars[last.self].default # Undefined =>
              last.result # Success(vars[last.self].default)

\* "" was parsed by a defaulted variable and by an optional one
C4_Witness ==
    /\ IsParse
    /\ last.value = Str(<<>>)
    /\ vars[last.self].default # Undefined
    /\ \E i \in 1..Len(vars) :
          vars[i].optional /\ Parse(Heap, i, Str(<<>>)).calls # <<>>

\* what C5 claims of a.else(b) on a present input
ElseResult(ra, rb) ==
    IF ra.success THEN ra
    ELSE IF rb.success THEN rb
    ELSE Failure(ra.error \o rb.error)

\* C5: on every present input, a.else(b) returns the result of a if a
\* succeeds, else the result of b if b succeeds, else the failure with the
\* issues of a followed by the issues of b.
C5_ElseFirstSuccess ==
    [][last'.op = "else" =>
          \A s \in Present :
              Parse([vars |-> vars', arrays |-> arrays'], last'.ret, s).result
                = ElseResult(Parse(Heap, last'.self, s).result,
                             Parse(Heap, last'.other, s).result)]_allVars

\* the members of a variable seen as a union
Members(H, self) ==
    IF H.vars[self].class = "AggregateVariable"
    THEN H.arrays[H.vars[self].variables] ELSE <<self>>

\* C6: the members of a.else(b) are the members of a followed by the members
\* of b, flattened (for non-unions a, b, c: a.else(b).else(c) has exactly
\* [a, b, c]), and its type is the types of these members joined by '/'.
C6_ElseMembers ==
    [][last'.op = "else" =>
          LET H2 == [vars |-> vars', arrays |-> arrays']
              expected == Members(Heap, last'.self) \o Members(Heap, last'.other)
          IN  /\ Members(H2, last'.ret) = expected
              /\ Type(H2, last'.ret) = JoinTypes(H2, expected)]_allVars

\* a call of the transform of variable t in the last parse
TransformCall(k) == last.calls[k].fn = "transform"

\* C7: for t = s.transform(f) and a present input x, t.parse(x) is the failure
\* of s.parse(x) without any call of f when s fails, and f(u) when s succeeds
\* with u, also when f(u) is a failure.
C7_Transform ==
    (IsParse /\ last.value # Undefined
            /\ vars[last.self].class = "TransformedVariable") =>
        LET t == vars[last.self]
            r == Parse(Heap, t.data.from, last.value).result
        IN  IF r.success
            THEN /\ last.result = ApplyTransform(t.data.transform, r.value)
                 /\ last.calls[Len(last.calls)] = Call("transform", last.self, r.value)
            ELSE /\ last.result = r
                 /\ ~\E k \in 1..Len(last.calls) :
                        TransformCall(k) /\ last.calls[k].self = last.self

\* the source succeeded on a present input and the transform failed
C7_Witness ==
    /\ IsParse
    /\ last.value = Str(<<"0">>)
    /\ vars[last.self].class = "TransformedVariable"
    /\ Parse(Heap, vars[last.self].data.from, last.value).result = Success(Num(0))
    /\ last.result = Failure(<<"must be positive">>)

\* C8 (as claimed): a transform is never called with undefined.
C8_NeverUndefined ==
    IsParse => \A k \in 1..Len(last.calls) :
                  TransformCall(k) => last.calls[k].arg # Undefined

\* C8 (amended): a transform is called only with the value of a successful
\* parse of the same input by its source; that value is undefined only for an
\* absent input and an optional source.
C8_SourceValue ==
    IsParse => \A k \in 1..Len(last.calls) :
                  TransformCall(k) =>
                      LET from == vars[last.calls[k].self].data.from
                          r == Parse(Heap, from, last.value).result
                      IN  /\ r.success
                          /\ last.calls[k].arg = r.value
                          /\ last.calls[k].arg = Undefined =>
                                last.value = Undefined /\ vars[from].optional

\* a transform was called with undefined, and one with the source's default
C8_Witness ==
    /\ IsParse
    /\ last.value = Undefined
    /\ \E k \in 1..Len(last.calls) : TransformCall(k) /\ last.calls[k].arg = Undefined

\* C9: for every present input s, v.optional().parse(s) and
\* v.defaultTo(x).parse(s) are v.parse(s).
C9_PresentUnaffected ==
    [][last'.op \in {"optional", "defaultTo"} =>
          \A s \in Present :
              Parse([vars |-> vars', arrays |-> arrays'], last'.ret, s).result
                = Parse(Heap, last'.self, s).result]_allVars

\* the configuration methods of the typed variables
ConfigOps ==
    {"min", "max", "value", "insensitive", "sensitive", "validate", "regex",
     "format", "formatClear"}

\* C10: a configuration method leaves every variable that existed before the
\* call parsing every input as before: the issues, the value and the calls
\* made are the same, whatever was derived from what
C10_CloneCopies ==
    [][last'.op \in ConfigOps =>
        \A v \in 1..Len(vars) : \A value \in ConfigInputs :
            Parse([vars |-> vars', arrays |-> arrays'], v, value) = Parse(Heap, v, value)
      ]_allVars

\* value() was called on an enum that was itself derived and has an item; the
\* new enum owns an array of its own and accepts an input the receiver rejects
C10_Witness ==
    /\ last.op = "value"
    /\ arrays[vars[last.self].items] # <<>>
    /\ vars[last.ret].items # vars[last.self].items
    /\ Len(arrays[vars[last.ret].items]) = Len(arrays[vars[last.self].items]) + 1
    /\ \E value \in ConfigInputs :
          /\ Parse(Heap, last.ret, value).result.success
          /\ ~Parse(Heap, last.self, value).result.success

\* the last call was parse, on a variable of the class, with a present input
ParsedBy(class) ==
    /\ last.op = "parse"
    /\ last.value # Undefined
    /\ vars[last.self].class = class

\* the calls of the last parse to a validator, in order
ValidatorCalls == SelectSeq(last.calls, LAMBDA c : c.fn = "validator")

DigitOf(c) == (CHOOSE j \in 1..16 : HexDigits[j] = ToUpper(<<c>>)[1]) - 1

\* the number a sequence of digits denotes in a base, from its last digit
RECURSIVE BaseValue(_, _)
BaseValue(cs, base) ==
    IF cs = <<>> THEN 0
    ELSE BaseValue(SubSeq(cs, 1, Len(cs) - 1), base) * base + DigitOf(cs[Len(cs)])

\* the base of an integer literal: 10 for decimal digits, 2 after 0b, 16
\* after 0x (prefix and digits in either case), 0 if the text is none
LiteralBase(cs) ==
    LET digitsOf(ds, chars) == ds # <<>> /\ \A k \in 1..Len(ds) : ds[k] \in chars
        decimal == {Digits[j] : j \in 1..10}
        hexadecimal == decimal \cup {Upper[j] : j \in 1..6} \cup {Lower[j] : j \in 1..6}
    IN  IF digitsOf(cs, decimal) THEN 10
        ELSE IF Len(cs) > 2 /\ cs[1] = "0" /\ cs[2] \in {"b", "B"}
                /\ digitsOf(SubSeq(cs, 3, Len(cs)), {"0", "1"}) THEN 2
        ELSE IF Len(cs) > 2 /\ cs[1] = "0" /\ cs[2] \in {"x", "X"}
                /\ digitsOf(SubSeq(cs, 3, Len(cs)), hexadecimal) THEN 16
        ELSE 0

\* the integer an integer literal denotes
LiteralValue(cs) ==
    IF LiteralBase(cs) = 10 THEN BaseValue(cs, 10)
    ELSE BaseValue(SubSeq(cs, 3, Len(cs)), LiteralBase(cs))

\* C17: IntegerVariable accepts exactly the decimal digit strings, the
\* 0b-prefixed binary literals and the 0x-prefixed hexadecimal literals
\* (prefix and digits in either case): such an input never fails as a
\* non-integer, succeeds when no bound is set, and a success has the value
\* read in the literal's base; every other input, fractional ones included,
\* fails with "must be an integer".
C17_IntegerLiterals ==
    ParsedBy("IntegerVariable") =>
        IF LiteralBase(last.value.s) = 0
        THEN last.result = Failure(<<"must be an integer">>)
        ELSE /\ last.result.success => last.result.value = Num(LiteralValue(last.value.s))
             /\ ~last.result.success => last.result.error # <<"must be an integer">>
             /\ (vars[last.self].min = Undefined /\ vars[last.self].max = Undefined)
                   => last.result.success

\* integer() parses "0x1A" to 26
C17_Witness ==
    /\ ParsedBy("IntegerVariable")
    /\ last.value = Str(<<"0", "x", "1", "A">>)
    /\ last.result = Success(Num(26))

\* the least integer not below a number, and the greatest not above it
Ceil(x) == CHOOSE i \in -100..100 : NumLE(x, Num(i)) /\ ~NumLE(x, Num(i - 1))

Floor(x) == CHOOSE i \in -100..100 : NumLE(Num(i), x) /\ ~NumLE(Num(i + 1), x)

\* C18: min and max of an IntegerVariable store the bound rounded, min up
\* and max down, and parse takes the stored bounds as inclusive: an integer
\* literal of value k succeeds with k exactly when it is not below the min
\* and not above the max that are set, and otherwise fails with one range
\* message.
C18_IntegerBounds ==
    /\ (last.op = "min" /\ vars[last.self].class = "IntegerVariable")
          => vars[last.ret].min = Num(Ceil(last.value))
    /\ (last.op = "max" /\ vars[last.self].class = "IntegerVariable")
          => vars[last.ret].max = Num(Floor(last.value))
    /\ (ParsedBy("IntegerVariable") /\ LiteralBase(last.value.s) # 0) =>
          LET o == vars[last.self]
              k == LiteralValue(last.value.s)
          IN  IF /\ o.min # Undefined => o.min.n <= k
                 /\ o.max # Undefined => k <= o.max.n
              THEN last.result = Success(Num(k))
              ELSE /\ ~last.result.success
                   /\ Len(last.result.error) = 1
                   /\ last.result.error # <<"must be an integer">>

\* integer().min(7.5) has the bound 8: it rejects "7" with one message
C18_Witness ==
    /\ ParsedBy("IntegerVariable")
    /\ vars[last.self].min = Num(8)
    /\ vars[last.self].max = Undefined
    /\ last.value = Str(<<"7">>)
    /\ last.result = Failure(<<"must be greater than or equal to 8">>)

\* C19: min and max of a NumberVariable store the bound as given, and an
\* input that parses to the number x succeeds with x exactly when x is not
\* below the min and not above the max that are set (both inclusive, a side
\* without a bound unbounded) and otherwise fails with exactly one range
\* message; an input that parses to no number fails with exactly
\* ["must be a number"].
C19_NumberBounds ==
    /\ (last.op = "min" /\ vars[last.self].class = "NumberVariable")
          => vars[last.ret].min = last.value
    /\ (last.op = "max" /\ vars[last.self].class = "NumberVariable")
          => vars[last.ret].max = last.value
    /\ ParsedBy("NumberVariable") =>
          LET o == vars[last.self]
              x == ParseFloat(last.value.s)
          IN  IF x = NaN THEN last.result = Failure(<<"must be a number">>)
              ELSE IF /\ o.min # Undefined => NumLE(o.min, x)
                      /\ o.max # Undefined => NumLE(x, o.max)
              THEN last.result = Success(x)
              ELSE /\ ~last.result.success
                   /\ Len(last.result.error) = 1
                   /\ last.result.error # <<"must be a number">>

\* number().min(5).max(7.5) accepts "5", the lower bound itself
C19_Witness ==
    /\ ParsedBy("NumberVariable")
    /\ vars[last.self].min = Num(5)
    /\ vars[last.self].max = Normalise(75, 1)
    /\ last.value = Str(<<"5">>)
    /\ last.result = Success(Num(5))

\* C20: a case-sensitive EnumVariable (the default) succeeds exactly on an
\* input equal to a registered literal and returns it; after insensitive()
\* it succeeds exactly on an input equal to a registered literal up to
\* letter case and returns the first such literal as registered, not the
\* input; every other input fails.
C20_EnumCase ==
    ParsedBy("EnumVariable") =>
        LET o == vars[last.self]
            items == arrays[o.items]
            matches == {k \in 1..Len(items) :
                           IF o.insensitive THEN ToLower(items[k]) = ToLower(last.value.s)
                           ELSE items[k] = last.value.s}
        IN  IF matches = {} THEN ~last.result.success
            ELSE /\ last.result.success
                 /\ last.result.value =
                       Str(items[CHOOSE k \in matches : \A j \in matches : k <= j])

\* enum().value('Dog').insensitive() parses "DOG" to 'Dog'
C20_Witness ==
    /\ ParsedBy("EnumVariable")
    /\ vars[last.self].insensitive
    /\ arrays[vars[last.self].items] = <<<<"D", "o", "g">>>>
    /\ last.value = Str(<<"D", "O", "G">>)
    /\ last.result = Success(Str(<<"D", "o", "g">>))

(***************************************************************************)
(* Properties of schema resolution                                         *)
(***************************************************************************)
\* a schema made of mappings and Variables only
RECURSIVE IsMapping(_)
IsMapping(node) ==
    \/ node.kind = "var"
    \/ node.kind = "obj" /\ \A k \in 1..Len(node.kids) : IsMapping(node.kids[k])

\* the Result of the leaf x under the key, from the data object
LeafResult(x, key, data) ==
    LET o == vars[x]
        named == "name" \in DOMAIN o
    IN  Parse(Heap, x, Lookup(data, IF named THEN Flat(o.name.s) ELSE key)).result

\* the leaves of a schema in the order of the walk, each with its key and
\* the chain of keys that leads to it; the alternative i of an array (i from
\* 0) counts as the segment i, a number if numeric and its decimal text if not
RECURSIVE Leaves(_, _, _, _)
RECURSIVE LeavesFrom(_, _, _, _, _)
Leaves(node, path, key, numeric) ==
    IF node.kind = "var" THEN <<[key |-> key, path |-> path, var |-> node.var]>>
    ELSE LeavesFrom(node, path, key, 1, numeric)

LeavesFrom(node, path, key, k, numeric) ==
    IF k > Len(node.kids) THEN <<>>
    ELSE (IF node.kind = "obj"
          THEN Leaves(node.kids[k], Append(path, Str(Chars(node.keys[k]))), node.keys[k],
                      numeric)
          ELSE Leaves(node.kids[k],
                      Append(path, IF numeric THEN Num(k - 1)
                                   ELSE Str(Chars(NatToString(k - 1)))),
                      key, numeric))
         \o LeavesFrom(node, path, key, k + 1, numeric)

\* the issue of a failing leaf
IssueOf(leaf, data) ==
    [key |-> leaf.path, issues |-> LeafResult(leaf.var, leaf.key, data).error,
     bare |-> LeafResult(leaf.var, leaf.key, data).bare]

\* the issues of the failing leaves of a schema, in the order of the walk
IssuesOf(node, path, data, numeric) ==
    LET failing == SelectSeq(Leaves(node, path, "", numeric),
                             LAMBDA leaf : ~LeafResult(leaf.var, leaf.key, data).success)
    IN  [k \in 1..Len(failing) |-> IssueOf(failing[k], data)]

\* the tree of a mapping schema with each leaf replaced by its value
RECURSIVE ValuesOf(_, _, _)
ValuesOf(node, key, data) ==
    IF node.kind = "var"
    THEN OutNode("value", <<>>, <<>>, LeafResult(node.var, key, data).value)
    ELSE OutNode("obj", node.keys,
                 [k \in 1..Len(node.kids) |-> ValuesOf(node.kids[k], node.keys[k], data)],
                 Undefined)

\* the tree of a schema with each leaf replaced by its Result
RECURSIVE ResultsOf(_, _, _)
ResultsOf(node, key, data) ==
    IF node.kind = "var"
    THEN OutNode("result", <<>>, <<>>, LeafResult(node.var, key, data))
    ELSE OutNode(node.kind, node.keys,
                 [k \in 1..Len(node.kids) |->
                     ResultsOf(node.kids[k],
                               IF node.kind = "obj" THEN node.keys[k] ELSE key, data)],
                 Undefined)

\* C12: parseValues over a schema of nested mappings throws a VariableError
\* exactly when at least one leaf fails and then returns nothing; the error
\* has one issue per failing leaf, in the order of the walk, whose key is the
\* chain of schema keys from the root and whose issues are the leaf's
\* messages; when no leaf fails it returns the tree of the leaves' values.
C12_AllOrNothing ==
    (last.op = "parseValues" /\ last.schema.kind = "obj" /\ IsMapping(last.schema)) =>
        LET issues == IssuesOf(last.schema, <<>>, last.data, FALSE) IN
        IF Len(issues) > 0
        THEN /\ last.out.thrown = "VariableError"
             /\ last.out.value = NoOutNode
             /\ last.out.issues = issues
        ELSE /\ last.out.thrown = ""
             /\ last.out.value = ValuesOf(last.schema, "", last.data)
             /\ last.out.issues = <<>>

\* parseValues of {a: number(), b: {c: number()}} with a = "7" and c = "x":
\* one issue, with key ["b", "c"]
C12_Witness ==
    /\ last.op = "parseValues"
    /\ last.schema.kind = "obj"
    /\ last.schema.keys = <<"a", "b">>
    /\ last.schema.kids[1].kind = "var"
    /\ last.data["a"] = Str(<<"7">>)
    /\ last.out.thrown = "VariableError"
    /\ last.out.issues = <<[key |-> <<Str(<<"b">>), Str(<<"c">>)>>,
                            issues |-> <<"must be a number">>, bare |-> FALSE]>>

\* C13: parseResults over an object schema does not throw and returns a tree
\* with the keys of the schema at every level, in order: a mapping for each
\* nested mapping, an array with one tree per alternative for each array,
\* and at each leaf the Result of parsing its data value, success or failure.
C13_ResultsMirror ==
    (last.op = "parseResults" /\ last.schema.kind = "obj") =>
        /\ last.out.thrown = ""
        /\ last.out.value = ResultsOf(last.schema, "", last.data)

\* parseResults of {a: number(), b: {c: number()}} where a succeeds and c
\* fails: both Results are in the tree
C13_Witness ==
    /\ last.op = "parseResults"
    /\ last.schema.kind = "obj"
    /\ last.schema.keys = <<"a", "b">>
    /\ last.out.thrown = ""
    /\ last.out.value.keys = <<"a", "b">>
    /\ last.out.value.kids[1].leaf.success
    /\ last.out.value.kids[2].keys = <<"c">>
    /\ last.out.value.kids[2].kids[1].leaf = Failure(<<"must be a number">>)

\* a schema with an array of alternatives somewhere in it
RECURSIVE HasUnion(_)
HasUnion(node) ==
    \/ node.kind = "arr"
    \/ \E k \in 1..Len(node.kids) : HasUnion(node.kids[k])

\* the issues a schema node is to report: those of a failing leaf, those of
\* the entries of a mapping in order, and for an array none if an
\* alternative has none, otherwise those of all alternatives in order, the
\* alternative i (from 0) adding the segment i to the path
RECURSIVE UnionIssues(_, _, _, _, _)
RECURSIVE UnionIssuesFrom(_, _, _, _, _, _)
UnionIssues(node, path, key, data, numeric) ==
    CASE node.kind = "var" ->
            IF LeafResult(node.var, key, data).success THEN <<>>
            ELSE <<IssueOf([key |-> key, path |-> path, var |-> node.var], data)>>
      [] node.kind = "arr" ->
            IF \E k \in 1..Len(node.kids) :
                  UnionIssuesFrom(node.kids[k], path, key, 1, data, numeric) = <<>>
            THEN <<>>
            ELSE UnionIssuesFrom(node, path, key, 1, data, numeric)
      [] OTHER -> UnionIssuesFrom(node, path, key, 1, data, numeric)

UnionIssuesFrom(node, path, key, k, data, numeric) ==
    IF k > Len(node.kids) THEN <<>>
    ELSE (IF node.kind = "obj"
          THEN UnionIssues(node.kids[k], Append(path, Str(Chars(node.keys[k]))),
                           node.keys[k], data, numeric)
          ELSE UnionIssues(node.kids[k],
                           Append(path, IF numeric THEN Num(k - 1)
                                        ELSE Str(Chars(NatToString(k - 1)))),
                           key, data, numeric))
         \o UnionIssuesFrom(node, path, key, k + 1, data, numeric)

\* the value tree of a schema none of whose nodes reports an issue: at an
\* array, the tree of the first alternative without issues
RECURSIVE UnionValues(_, _, _)
UnionValues(node, key, data) ==
    CASE node.kind = "var" ->
            OutNode("value", <<>>, <<>>, LeafResult(node.var, key, data).value)
      [] node.kind = "arr" ->
            UnionValues(node.kids[CHOOSE k \in 1..Len(node.kids) :
                            /\ UnionIssues(node.kids[k], <<>>, key, data, TRUE) = <<>>
                            /\ \A j \in 1..(k - 1) :
                                  UnionIssues(node.kids[j], <<>>, key, data, TRUE) # <<>>],
                        key, data)
      [] OTHER ->
            OutNode("obj", node.keys,
                    [k \in 1..Len(node.kids) |-> UnionValues(node.kids[k], node.keys[k], data)],
                    Undefined)

\* what parseValues is to leave for a schema with arrays of alternatives
UnionOutcome(numeric) ==
    LET issues == UnionIssues(last.schema, <<>>, "", last.data, numeric) IN
    IF Len(issues) > 0
    THEN last.out.thrown = "VariableError" /\ last.out.issues = issues
    ELSE /\ last.out.thrown = ""
         /\ last.out.issues = <<>>
         /\ last.out.value = UnionValues(last.schema, "", last.data)

\* C14: at an array of alternatives parseValues tries the alternatives in
\* order and stores under the key the value tree of the first alternative
\* without leaf issues, dropping the issues of the alternatives before it; if
\* every alternative has issues, it reports the issues of all alternatives in
\* order, each path having the integer index of the alternative as the
\* segment after the key of the array.
C14_UnionIntegerIndex ==
    (last.op = "parseValues" /\ HasUnion(last.schema)) => UnionOutcome(TRUE)

\* the node of an output tree at the end of a chain of keys
RECURSIVE NodeAt(_, _)
NodeAt(tree, path) ==
    IF path = <<>> THEN tree
    ELSE NodeAt(tree.kids[CHOOSE k \in 1..Len(tree.keys) :
                              Str(Chars(tree.keys[k])) = Head(path)],
                Tail(path))

\* C15: resolving a schema of nested mappings parses each leaf with the data
\* value under the name given to it with from, or if it has none under its
\* own key, whatever the keys above it, and puts the outcome at the leaf's
\* place in the schema: the Result in parseResults, the value in what
\* parseValues returns, the issue under the leaf's chain of keys in what
\* parseValues throws.
C15_LookupKey ==
    (last.op \in {"parseValues", "parseResults"} /\ last.schema.kind = "obj"
        /\ IsMapping(last.schema)) =>
        \A leaf \in {Leaves(last.schema, <<>>, "", FALSE)[k] :
                        k \in 1..Len(Leaves(last.schema, <<>>, "", FALSE))} :
            LET o == vars[leaf.var]
                value == IF "name" \in DOMAIN o THEN last.data[Flat(o.name.s)]
                         ELSE last.data[leaf.key]
                r == Parse(Heap, leaf.var, value).result
            IN  IF last.op = "parseResults"
                THEN NodeAt(last.out.value, leaf.path).leaf = r
                ELSE IF last.out.thrown = ""
                THEN r.success /\ NodeAt(last.out.value, leaf.path).leaf = r.value
                ELSE ~r.success =>
                        \E k \in 1..Len(last.out.issues) :
                            /\ last.out.issues[k].key = leaf.path
                            /\ last.out.issues[k].issues = r.error

\* parseResults of {a: x, b: {c: number().from('N')}} with c = "x" and
\* N = "7": the Result under b.c is success(7)
C15_Witness ==
    /\ last.op = "parseResults"
    /\ last.schema.keys = <<"a", "b">>
    /\ last.schema.kids[2].kids[1].var = 3
    /\ Variable_name(vars[3]) = Str(<<"N">>)
    /\ last.data["c"] = Str(<<"x">>)
    /\ last.data["N"] = Str(<<"7">>)
    /\ last.out.value.kids[2].keys = <<"c">>
    /\ last.out.value.kids[2].kids[1].leaf = Success(Num(7))

\* C16: resolving a bare Variable without a name throws a plain Error before
\* anything is parsed, in parseResults and in parseValues; with a name,
\* parseResults returns the Result of parsing the data value under the name,
\* and parseValues returns its value or throws a VariableError with exactly
\* one issue, whose key is [name] and whose issues are those of the Result.
C16_BareVariable ==
    (last.op \in {"parseValues", "parseResults"} /\ last.schema.kind = "var") =>
        LET o == vars[last.schema.var] IN
        IF "name" \notin DOMAIN o
        THEN last.out = Outcome("Error", NoOutNode, <<>>, <<>>)
        ELSE LET r == Parse(Heap, last.schema.var, last.data[Flat(o.name.s)]).result IN
             IF last.op = "parseResults"
             THEN last.out.thrown = "" /\ last.out.value.leaf = r
             ELSE IF r.success
             THEN last.out.thrown = "" /\ last.out.value.leaf = r.value
             ELSE /\ last.out.thrown = "VariableError"
                  /\ last.out.issues = <<[key |-> <<o.name>>, issues |-> r.error,
                                          bare |-> r.bare]>>

\* parseValues of the bare number() throws the Error, and parseValues of the
\* bare number().from('N') with N = "x" throws the VariableError
C16_Witness ==
    /\ last.op = "parseValues"
    /\ last.schema.kind = "var"
    /\ \/ /\ last.schema.var = 1
          /\ last.out.thrown = "Error"
       \/ /\ last.schema.var = 3
          /\ last.data["N"] = Str(<<"x">>)
          /\ last.out.thrown = "VariableError"
          /\ last.out.issues[1].key = <<Str(<<"N">>)>>

\* the arrays of a schema against a tree of Results: at each array the tree
\* has a list with one tree of Results per alternative, in order
RECURSIVE ArraysMirrored(_, _, _, _)
ArraysMirrored(node, out, key, data) ==
    CASE node.kind = "var" -> TRUE
      [] node.kind = "arr" ->
            /\ out.kind = "arr"
            /\ Len(out.kids) = Len(node.kids)
            /\ \A i \in 1..Len(node.kids) : out.kids[i] = ResultsOf(node.kids[i], key, data)
      [] OTHER ->
            /\ out.kind = "obj"
            /\ Len(out.kids) = Len(node.kids)
            /\ \A k \in 1..Len(node.kids) :
                  ArraysMirrored(node.kids[k], out.kids[k], node.keys[k], data)

\* the calls made when each leaf of a sequence of leaves is parsed in turn
RECURSIVE LeafCalls(_, _, _)
LeafCalls(leaves, k, data) ==
    IF k > Len(leaves) THEN <<>>
    ELSE LET o == vars[leaves[k].var]
             value == Lookup(data, IF "name" \in DOMAIN o THEN Flat(o.name.s)
                                   ELSE leaves[k].key)
         IN  Parse(Heap, leaves[k].var, value).calls \o LeafCalls(leaves, k + 1, data)

\* C25: parseResults maps an array of alternatives to a list with one tree
\* of Results per alternative, in the order of the alternatives, and parses
\* the leaves of every alternative, whether or not an earlier alternative
\* succeeded in full: no alternative is selected or dropped.
C25_EveryAlternative ==
    (last.op = "parseResults" /\ HasUnion(last.schema)) =>
        /\ last.out.thrown = ""
        /\ ArraysMirrored(last.schema, last.out.value, "", last.data)
        /\ last.out.calls = LeafCalls(Leaves(last.schema, <<>>, "", FALSE), 1, last.data)

\* parseResults of {a: [{b: x}, {c: y}], c: z} with b = "7": the first
\* alternative succeeds in full and the list still has both
C25_Witness ==
    /\ last.op = "parseResults"
    /\ last.schema.kind = "obj"
    /\ last.schema.keys = <<"a", "c">>
    /\ last.schema.kids[1].kind = "arr"
    /\ Len(last.schema.kids[1].kids) = 2
    /\ last.out.value.kids[1].kind = "arr"
    /\ Len(last.out.value.kids[1].kids) = 2
    /\ last.out.value.kids[1].kids[1].kids[1].leaf = Success(Num(7))
    /\ ~last.out.value.kids[1].kids[2].kids[1].leaf.success

\* the issues of the failing Results of a tree of Results, in the order of
\* the tree, each under its chain of keys
RECURSIVE FailuresIn(_, _)
RECURSIVE FailuresFrom(_, _, _)
FailuresIn(tree, path) ==
    IF tree.kind = "result"
    THEN IF tree.leaf.success THEN <<>>
         ELSE <<[key |-> path, issues |-> tree.leaf.error, bare |-> tree.leaf.bare]>>
    ELSE FailuresFrom(tree, path, 1)

FailuresFrom(tree, path, k) ==
    IF k > Len(tree.kids) THEN <<>>
    ELSE FailuresIn(tree.kids[k], Append(path, Str(Chars(tree.keys[k]))))
         \o FailuresFrom(tree, path, k + 1)

\* a tree of Results with every Result replaced by its value
RECURSIVE Unwrapped(_)
Unwrapped(tree) ==
    IF tree.kind = "result" THEN OutNode("value", <<>>, <<>>, tree.leaf.value)
    ELSE OutNode(tree.kind, tree.keys, [k \in 1..Len(tree.kids) |-> Unwrapped(tree.kids[k])],
                 Undefined)

\* C27: on an object schema without arrays of alternatives parseValues agrees
\* with parseResults on the same schema and data: it throws exactly when a
\* Result of the parseResults tree is a failure, its issues are then those
\* of the failing Results, one each, with the path and the messages of the
\* Result, and otherwise it returns the tree with every Result replaced by
\* its value.
C27_ValuesAgreeWithResults ==
    (last.op = "parseValues" /\ last.schema.kind = "obj" /\ IsMapping(last.schema)) =>
        LET results == parseResults(Heap, last.schema, last.data,
                                    Variable_parses(Heap, last.data))
            failures == FailuresIn(results.value, <<>>)
        IN  /\ results.thrown = ""
            /\ last.out.thrown = (IF failures = <<>> THEN "" ELSE "VariableError")
            /\ last.out.issues = failures
            /\ failures = <<>> => last.out.value = Unwrapped(results.value)

\* parseValues of {a: {a: x}, c: y} where both leaves fail: two issues, as
\* the two failures of the parseResults tree
C27_Witness ==
    /\ last.op = "parseValues"
    /\ last.schema.kind = "obj"
    /\ last.schema.keys = <<"a", "c">>
    /\ last.schema.kids[1].kind = "obj"
    /\ last.out.thrown = "VariableError"
    /\ Len(last.out.issues) = 2
    /\ last.out.issues[1].key = <<Str(<<"a">>), Str(<<"a">>)>>
    /\ last.out.issues[2].key = <<Str(<<"c">>)>>

(***************************************************************************)
(* Properties of else-unions on an absent input                            *)
(***************************************************************************)
\* what a.else(b) is to return on an absent input, by a and b; hasDefault
\* tells whether the default of a counts as set
ElseAbsent(a, b, hasDefault) ==
    IF a.optional \/ b.optional THEN Success(Undefined)
    ELSE IF hasDefault THEN Success(a.default)
    ELSE IF b.default # Undefined THEN Success(b.default)
    ELSE Failure(<<"is required">>)

\* C28: on an absent input a.else(b) succeeds with undefined if a or b is
\* optional; otherwise succeeds with the default of a if a has one, whatever
\* its value (0 included); otherwise succeeds with the default of b if b has
\* one; otherwise fails with ["is required"].
C28_ElseAbsent ==
    last.op = "else" =>
        Parse(Heap, last.ret, Undefined).result
            = ElseAbsent(vars[last.self], vars[last.other],
                         vars[last.self].default # Undefined)

\* the same with only the truthy defaults of a counted: what the code does
C28_ElseAbsentTruthy ==
    last.op = "else" =>
        Parse(Heap, last.ret, Undefined).result
            = ElseAbsent(vars[last.self], vars[last.other], Truthy(vars[last.self].default))

(***************************************************************************)
(* Properties of dates                                                     *)
(***************************************************************************)
\* the number written in a group of digits
Written(cs) == DigitsValue(cs, 0)

\* the days of a month of the Gregorian calendar
DaysIn(year, month) ==
    IF month = 2
    THEN IF (year % 4 = 0 /\ year % 100 # 0) \/ year % 400 = 0 THEN 29 ELSE 28
    ELSE IF month \in {4, 6, 9, 11} THEN 30 ELSE 31

\* the signed hours and the minutes of the offset written in the groups
OffsetHour(g) ==
    IF Head(g.tzhour) = "-" THEN 0 - Written(Tail(g.tzhour)) ELSE Written(Tail(g.tzhour))

\* the components written in the groups of a match that are out of range; a
\* day counts against the month only when the month is one of the calendar
Violating(g) ==
    {c \in {"month", "hour", "minute", "second"} :
        /\ g[c] # <<>>
        /\ \/ Written(g[c]) > (CASE c = "month" -> 12 [] c = "hour" -> 23 [] OTHER -> 59)
           \/ c = "month" /\ Written(g[c]) = 0}
    \cup {c \in {"day"} :
            /\ g.day # <<>>
            /\ \/ Written(g.day) = 0
               \/ Written(g.day) > 31
               \/ /\ Written(g.month) \in 1..12
                  /\ Written(g.day) > DaysIn(Written(g.year), Written(g.month))}
    \cup {c \in {"tz"} :
            /\ g.tzhour # <<>>
            /\ Written(Tail(g.tzhour)) * 100 + Written(g.tzminute) > 1400}

\* the issues that name a component
IssuesNaming(c) ==
    IF c = "tz"
    THEN {".tz must be an offset between -14:00 and +14:00", ".tzhour must be greater than -14"}
    ELSE {"." \o c \o " must be greater than " \o (IF c \in {"month", "day"} THEN "1" ELSE "0")}

\* the match of the text at hand with the first format of a list that
\* matches it; ok is FALSE when none does
RECURSIVE FirstMatch(_, _, _)
FirstMatch(formats, k, text) ==
    IF k > Len(formats) THEN [ok |-> FALSE, groups |-> NoGroups]
    ELSE IF Match(formats[k], text).ok THEN Match(formats[k], text)
    ELSE FirstMatch(formats, k + 1, text)

\* C21: when the input matches a format of a DateObjectVariable and has
\* components out of range, parse fails with a list of issues that has an
\* issue for each of these components; the failure "must be in a valid date
\* format." is returned only when no format matches the input.
C21_ComponentIssues ==
    last.op = "parse" =>
        LET m == FirstMatch(arrays[vars[last.self].formats], 1, last.value.s) IN
        IF ~m.ok
        THEN ~last.result.success /\ last.result.error = <<"must be in a valid date format.">>
        ELSE Violating(m.groups) # {} =>
                /\ ~last.result.success
                /\ last.result.error # <<"must be in a valid date format.">>
                /\ \A c \in Violating(m.groups) :
                      \E k \in 1..Len(last.result.error) :
                          last.result.error[k] \in IssuesNaming(c)

\* DateObject.parse, which the variable calls, does return the issues of all
\* components out of range (a day counted here only when it is 00, the days
\* of a month being the matter of C22)
C21_ParseCollects ==
    last.op = "DateObject.parse" =>
        LET m == Match(last.name, last.value.s)
            bad == {c \in Violating(m.groups) : c = "day" => Written(m.groups.day) = 0}
        IN  (m.ok /\ bad # {}) =>
                /\ ~last.result.success
                /\ ~last.result.bare
                /\ \A c \in bad :
                      \E k \in 1..Len(last.result.error) :
                          last.result.error[k] \in IssuesNaming(c)

\* C22: for a year and a month in range, DateObject.parse accepts a day d
\* exactly when 1 <= d <= the days of that month in that year: 29 for
\* February in a leap year and 28 otherwise, 30 or 31 for the other months
\* in every year.
C22_CalendarDays ==
    last.op = "DateObject.parse" =>
        LET m == Match(last.name, last.value.s)
            g == m.groups
        IN  (m.ok /\ g.day # <<>> /\ Violating(g) \subseteq {"day"} /\ g.tzhour = <<>>) =>
                (last.result.success <=>
                    Written(g.day) \in 1..DaysIn(Written(g.year), Written(g.month)))

\* the same with the leap day added to every month of a leap year (the
\* year 0000 counted as 2000)
C22_LeapDayEveryMonth ==
    last.op = "DateObject.parse" =>
        LET m == Match(last.name, last.value.s)
            g == m.groups
        IN  (m.ok /\ g.day # <<>> /\ Written(g.month) \in 1..12
                /\ Violating(g) \subseteq {"day"} /\ g.tzhour = <<>>) =>
                (last.result.success <=>
                    Written(g.day) \in
                        1..(DaysIn(2023, Written(g.month))
                            + (DaysIn(Written(g.year), 2) - 28)))

\* C23: for an input with date and time in range, the timezone of the
\* DateObject is local when no marker is written, UTC when Z or z is
\* written, and the offset of the hours and minutes written when an offset
\* of at most 14:00 is written; parse fails for the timezone only when the
\* offset is beyond 14:00.
C23_Timezone ==
    last.op = "DateObject.parse" =>
        LET m == Match(last.name, last.value.s)
            g == m.groups
        IN  (m.ok /\ Violating(g) \subseteq {"tz"}) =>
                IF "tz" \in Violating(g) THEN ~last.result.success
                ELSE /\ last.result.success
                     /\ last.result.value.date.tz =
                           (IF g.tzhour # <<>>
                            THEN [type |-> "offset", hour |-> OffsetHour(g),
                                  minute |-> Written(g.tzminute)]
                            ELSE IF g.tzutc # <<>>
                            THEN [type |-> "utc", hour |-> 0, minute |-> 0]
                            ELSE [type |-> "local", hour |-> 0, minute |-> 0])

\* the same for the inputs without an offset, and every input with an offset
\* fails
C23_NoOffsetEver ==
    last.op = "DateObject.parse" =>
        LET m == Match(last.name, last.value.s)
            g == m.groups
        IN  (m.ok /\ Violating(g) \subseteq {"tz"}) =>
                IF g.tzhour # <<>> THEN ~last.result.success
                ELSE /\ last.result.success
                     /\ last.result.value.date.tz =
                           (IF g.tzutc # <<>>
                            THEN [type |-> "utc", hour |-> 0, minute |-> 0]
                            ELSE [type |-> "local", hour |-> 0, minute |-> 0])

\* C24: a valid DateObject printed by DateObject.toISO and parsed again by
\* DateObject.parse with the datetimeTz format gives the DateObject back,
\* for each kind of timezone.
C24_RoundTrip ==
    (last.op = "DateObject.parse" /\ last.date # NoDate /\ last.name = "datetimeTz") =>
        /\ last.result.success
        /\ last.result.value.date = last.date

\* the round trips that do give the DateObject back: those of a year above
\* 0 with a local or UTC timezone, printed in full or with a time of day
\* that is not midnight, or local
C24_RoundTripLocalUtc ==
    (last.op = "DateObject.parse" /\ last.date # NoDate /\ last.name = "datetimeTz") =>
        LET d == last.date
            printed == last.value = toIsoString(d, TRUE)
                       \/ d.hour + d.minute + d.second + d.ms # 0
                       \/ d.tz.type = "local"
        IN  (last.result.success /\ last.result.value.date = d)
                <=> (d.year > 0 /\ d.tz.type # "offset" /\ printed)

\* C30: for an input that matches the format with every component written
\* in range, each component of the DateObject is the number written in the
\* input, 0 included, and the default for a component the input leaves out.
C30_ComponentsAsWritten ==
    last.op = "DateObject.parse" =>
        LET m == Match(last.name, last.value.s)
            g == m.groups
        IN  (m.ok /\ Violating(g) = {} /\ g.tzhour = <<>>) =>
                /\ last.result.success
                /\ \A c \in {"year", "month", "day", "hour", "minute", "second", "ms"} :
                      last.result.value.date[c] =
                          (IF g[c] # <<>> THEN Written(g[c]) ELSE defaults[c])

\* the same for the inputs whose year is not 0000
C30_ExceptYearZero ==
    last.op = "DateObject.parse" =>
        LET m == Match(last.name, last.value.s)
            g == m.groups
        IN  (m.ok /\ Violating(g) = {} /\ g.tzhour = <<>>) =>
                /\ last.result.success
                /\ \A c \in {"year", "month", "day", "hour", "minute", "second", "ms"} :
                      last.result.value.date[c] =
                          (IF g[c] = <<>> THEN defaults[c]
                           ELSE IF c = "year" /\ Written(g[c]) = 0 THEN defaults.year
                           ELSE Written(g[c]))

(***************************************************************************)
(* Properties of the issues of a failure                                   *)
(***************************************************************************)
\* C29: every failure that parse returns carries a list of issue messages
\* that is not empty, never a bare string.
C29_IssueLists ==
    (last.op = "parse" /\ ~last.result.success) =>
        /\ ~last.result.bare
        /\ last.result.error # <<>>

\* the same for the variables that are no EnumVariable (in the runs of the
\* typed variables) and for the inputs other than undefined
C29_IssueListsButEnum ==
    (last.op = "parse" /\ ~last.result.success /\ vars[last.self].class # "EnumVariable") =>
        /\ ~last.result.bare
        /\ last.result.error # <<>>

(***************************************************************************)
(* Properties of DataObjectBuilder                                         *)
(***************************************************************************)
\* the values of addObject as the builder keeps them
Stringified(object) ==
    [key \in DOMAIN object |->
        IF object[key].tag = "string" THEN object[key]
        ELSE IF object[key].tag = "number"
             THEN Str(Chars(NumToString(object[key])))
             ELSE Str(Chars(IF object[key].n = 1 THEN "true" ELSE "false"))]

\* C26: DataObjectBuilder is immutable.  No step (an add call, a
\* toDataObject call, a write of the caller to an object it holds) changes
\* the data of a builder that exists; an add call returns a new builder
\* whose data is the data of the builder it was called on merged with the
\* added data, the added keys overriding; toDataObject returns the data of
\* the builder in an object that no builder holds.
C26_BuilderImmutable ==
    [][ /\ \A b \in 1..Len(vars) :
              /\ b <= Len(vars')
              /\ arrays'[vars'[b].data] = arrays[vars[b].data]
        /\ last'.op \in {"addDataObject", "addObject"} =>
              /\ last'.ret = Len(vars) + 1
              /\ Len(vars') = Len(vars) + 1
              /\ arrays'[vars'[last'.ret].data] =
                    Stringified(last'.data) @@ arrays[vars[last'.self].data]
        /\ last'.op = "toDataObject" =>
              /\ arrays'[last'.ret] = arrays[vars[last'.self].data]
              /\ \A b \in 1..Len(vars') : vars'[b].data # last'.ret
      ]_allVars

\* the caller has overwritten key1 in the object a builder returned, and
\* the first builder is still empty while the builder made from it by an
\* add call still holds the added value
C26_Witness ==
    /\ last.op = "mutate"
    /\ Len(vars) >= 2
    /\ DOMAIN arrays[vars[1].data] = {}
    /\ "key1" \in DOMAIN arrays[vars[2].data]
    /\ arrays[vars[2].data]["key1"] = Str(Chars("value1"))
    /\ last.ret > 2
    /\ \A b \in 1..Len(vars) : vars[b].data # last.ret
    /\ "key1" \in DOMAIN arrays[last.ret]
    /\ arrays[last.ret]["key1"] = Str(Chars("changed"))

====
